---------------------------- MODULE Spec2Model ----------------------------
(***************************************************************************)
(* Device communication layer of the 2N intercom plugin:                   *)
(*   - Intercom2NAccessory (initialize / startEventPolling / pollEvents /  *)
(*     destroy) on top of Api2NClient's subscription calls                 *)
(*     (subscribeToEvents / pullEvents / unsubscribeFromEvents);           *)
(*   - CameraSource (prepareStream / startStream / stopStream);            *)
(*   - Api2NClient.request / getSnapshot (Basic, then Digest).             *)
(* JavaScript runs one callback at a time: every action below is the code  *)
(* that runs between two awaits (or one timer / response callback).        *)
(***************************************************************************)
EXTENDS Integers, Sequences, FiniteSets, Bags, TLC

(***************************************************************************)
(* Bounds of the model                                                     *)
(***************************************************************************)
\* pollEvents invocations that may overlap (setInterval does not wait)
MaxInFlight == 2
\* requests the device or the network may fail (HTTP error, timeout, ...)
MaxFail == 1
\* subscriptions the device may expire on its own
MaxExpire == 1
\* subscription ids the device may hand out
MaxSub == 2 * (MaxFail + MaxExpire + MaxInFlight)
\* interval timers that may be created
MaxTimers == 2
\* stream session identifiers
MaxSessions == 2
\* transcoding processes that may be spawned
MaxProcs == 2
\* request()/getSnapshot() calls in flight at once
MaxCalls == 2
\* distinct nonces the device may put in a challenge
MaxNonce == 2
\* largest value the nonce counter may take
MaxCount == 2
\* switches of the device
MaxSwitch == 2
\* setSwitchState() calls in flight at once
MaxSwitchCalls == 2
\* makeRequest() calls followed
MaxRequests == 2
\* calls of triggerDoorbell followed
MaxRings == 2
\* words of one output of ffmpeg
MaxWords == 3
\* chunks of a response body followed
MaxChunks == 1

(***************************************************************************)
(* Program constants                                                       *)
(***************************************************************************)
\* error code of "subscription not found / expired"
SubscriptionExpiredCode == 12
\* some other device error code (the "busy" of the switch scenario)
OtherErrorCode == 5
\* request, line 263: the length of the body excerpt of an HTTP error
ExcerptLen == 200

\* the absent subscription id or timer handle (JavaScript null)
Null == 0

VARIABLES
    \* ---- Api2NClient
    subscriptionId,     \* this.subscriptionId (Null or an id)
    \* ---- Intercom2NAccessory
    eventPollInterval,  \* this.eventPollInterval (Null or a timer handle)
    initPc,             \* where initialize()/startEventPolling() stands
    lastStart,          \* what the last call of startEventPolling did
    ticks,              \* the bag of pollEvents invocations in flight
    lastDone,           \* the pollEvents invocation that returned last
    unsubPc,            \* the unsubscribe request of destroy()
    unsubResult,        \* how the unsubscribeFromEvents() of destroy() ended
    destroyed,          \* destroy() has been called
    \* ---- Node's timers
    timers,             \* handles of the live setInterval timers
    timerSeq,           \* handles created so far
    \* ---- the device
    devSubs,            \* subscription ids the device holds
    faults,             \* failed requests so far
    expiries,           \* subscriptions expired so far
    \* ---- CameraSource
    pendingSessions,    \* this.pendingSessions: the ids that have a record
    activeSessions,     \* this.activeSessions: id -> its videoProcess, or Null
    procs,              \* the child processes spawned so far
    streamLast,         \* the stream operation that returned last
    streamOut,          \* what that operation stored and gave to its callback
    \* ---- Api2NClient: authentication
    lastDigestChallenge,\* this.lastDigestChallenge, NoChallenge for null
    nonceCount,         \* this.nonceCount
    calls,              \* bag of the request()/getSnapshot() calls in flight
    issued,             \* the <<nonce, nc>> pairs Digest headers were computed for
    lastStep,           \* what the last step of a call did
    \* ---- Api2NClient: switch control
    switchCalls,        \* bag of the setSwitchState() calls in flight
    switchLast,         \* the setSwitchState() call that settled last
    \* ---- Api2NClient: makeRequest
    requests,           \* the makeRequest() calls: socket, response, promise
    \* ---- Intercom2NAccessory: events
    context,            \* this.accessory.context.doorbellButton
    lockCurrentState,   \* this.lockCurrentState
    rings,              \* calls of triggerDoorbell so far
    eventLast,          \* the event handleEvent handled last, and what it did
    \* ---- CameraSource: the stderr of ffmpeg
    stderrLast,         \* the last output of ffmpeg and the level it was logged at
    \* ---- Api2NClient: generateDigestAuth
    digestLast,         \* the last computation of a Digest header
    digestPrev,         \* the one before
    \* ---- the Basic-only Api2NClient next to the Digest-capable one
    pairLast            \* the last operation, as each of the two clients ran it

pollVars == <<subscriptionId, eventPollInterval, initPc, lastStart, ticks, lastDone, unsubPc,
             unsubResult,
              destroyed, timers, timerSeq, devSubs, faults, expiries>>

streamVars == <<pendingSessions, activeSessions, procs, streamLast, streamOut>>

authVars == <<lastDigestChallenge, nonceCount, calls, issued, lastStep>>

switchVars == <<switchCalls, switchLast>>

netVars == <<requests>>

eventVars == <<context, lockCurrentState, rings, eventLast>>

logVars == <<stderrLast>>

digestVars == <<digestLast, digestPrev>>

pairVars == <<pairLast>>

vars == <<pollVars, streamVars, authVars, switchVars, netVars, eventVars, logVars,
          digestVars, pairVars>>

\* what the actions of one component leave alone
exceptPoll == <<streamVars, authVars, switchVars, netVars, eventVars, logVars, digestVars,
    pairVars>>
exceptStream == <<pollVars, authVars, switchVars, netVars, eventVars, logVars, digestVars,
    pairVars>>
exceptAuth == <<pollVars, streamVars, switchVars, netVars, eventVars, logVars, digestVars,
    pairVars>>
exceptSwitch == <<pollVars, streamVars, authVars, netVars, eventVars, logVars, digestVars,
    pairVars>>
exceptNet == <<pollVars, streamVars, authVars, switchVars, eventVars, logVars, digestVars,
    pairVars>>
exceptLog == <<pollVars, streamVars, authVars, switchVars, netVars, eventVars, digestVars,
    pairVars>>
exceptDigest ==
    <<pollVars, streamVars, authVars, switchVars, netVars, eventVars, logVars, pairVars>>
exceptPair ==
    <<pollVars, streamVars, authVars, switchVars, netVars, eventVars, logVars, digestVars>>
exceptEvent == <<pollVars, streamVars, authVars, switchVars, netVars, logVars, digestVars,
    pairVars>>

\* a pollEvents invocation that has not started
IdleTick == [pc |-> "idle", id |-> Null, pulled |-> FALSE, code |-> -1,
             err |-> "none", ret |-> "none", subs |-> 0]

(***************************************************************************)
(* The device and the network                                              *)
(***************************************************************************)
\* one more request may fail
MayFail == faults < MaxFail

\* the subscription ids the client holds: its current one and those of its
\* requests in flight
HeldIds == ({subscriptionId, unsubPc} \cup {t.id : t \in BagToSet(ticks)}) \ {Null}

\* the ids the device may hand out next: ids are opaque, so any id that
\* neither the device nor the client holds stands for a new one
FreeIds == (1 .. MaxSub) \ (devSubs \cup HeldIds)

\* the id the device hands out next
NewId == CHOOSE id \in FreeIds : \A other \in FreeIds : id <= other

\* the device still has an id to hand out
MaySubscribe == FreeIds # {}

\* the answer of the device to a pull of subscription id: the envelope's
\* error code, 0 for success
PullAnswer(id) == IF id \in devSubs THEN 0 ELSE SubscriptionExpiredCode

\* the device drops a subscription on its own
Expire(id) ==
    /\ id \in devSubs \cap HeldIds
    /\ expiries < MaxExpire
    /\ devSubs' = devSubs \ {id}
    /\ expiries' = expiries + 1
    /\ UNCHANGED <<subscriptionId, eventPollInterval, initPc, lastStart, ticks, lastDone, unsubPc, unsubResult,
                   destroyed, timers, timerSeq, faults>>
    /\ UNCHANGED exceptPoll

(***************************************************************************)
(* Api2NClient: subscription                                               *)
(***************************************************************************)
\* subscribeToEvents, response success with a result: the id is stored
SubscribeStored ==
    /\ MaySubscribe
    /\ devSubs' = devSubs \cup {NewId}
    /\ subscriptionId' = NewId
    /\ UNCHANGED faults

\* subscribeToEvents, request failed or rejected: throws, nothing stored
SubscribeThrows ==
    /\ MayFail
    /\ faults' = faults + 1
    /\ UNCHANGED <<devSubs, subscriptionId>>

isSubscribed == subscriptionId # Null


\* a client that does not recognise the expiry code
IsExpiredAnswer_Never(code) == FALSE

\* pullEvents, lines 411-413: the answer is the expiry of the subscription
IsExpiredAnswer(code) == code = SubscriptionExpiredCode

\* a pullEvents that sends its request whether or not there is an id
PullEventsCall_NoGuard(t) ==
    [t EXCEPT !.pc = "pull", !.id = subscriptionId, !.pulled = TRUE]

\* pullEvents, lines 400-409: the call. Without a subscription id it throws
\* before any request; otherwise the pull request carries the current id.
PullEventsCall(t) ==
    IF subscriptionId = Null
    THEN [t EXCEPT !.pc = "threw", !.id = Null, !.err = "NotSubscribed"]
    ELSE [t EXCEPT !.pc = "pull", !.id = subscriptionId, !.pulled = TRUE]

(***************************************************************************)
(* Intercom2NAccessory: event polling                                      *)
(***************************************************************************)
\* a catch block that subscribes again without asking isSubscribed()
PollEventsCatch_Always(t) == [t EXCEPT !.pc = "resub", !.subs = @ + 1]

\* pollEvents, lines 246-257: the catch block. One subscribe request when
\* the client is not subscribed, nothing more otherwise.
PollEventsCatch(t) ==
    IF ~isSubscribed
    THEN [t EXCEPT !.pc = "resub", !.subs = @ + 1]
    ELSE [t EXCEPT !.pc = "done"]

\* pollEvents, lines 239-245: the call of pullEvents and what follows it
\* in the same turn of the event loop
PollEventsCall(t) ==
    LET c == PullEventsCall(t)
    IN  IF c.pc = "threw" THEN PollEventsCatch(c) ELSE c

\* the invocation t goes on as u; once it has returned it leaves the bag
\* and is kept as the invocation that returned last
Settle(t, u) ==
    /\ ticks' = IF u.pc = "done"
                THEN ticks (-) SetToBag({t})
                ELSE (ticks (-) SetToBag({t})) (+) SetToBag({u})
    /\ lastDone' = IF u.pc = "done" THEN u ELSE lastDone

\* a timer that fires only once the earlier invocations have returned
TickDue_AfterCompletion == timers # {} /\ ticks = EmptyBag

\* setInterval, lines 226-228: a timer that exists fires every
\* EVENT_POLL_INTERVAL, whatever has become of the earlier invocations
TickDue == timers # {}

\* the setInterval callback of startEventPolling, lines 226-228: a new
\* pollEvents invocation, whether or not earlier ones have returned
Tick ==
    /\ TickDue
    /\ BagCardinality(ticks) < MaxInFlight
    /\ ticks' = ticks (+) SetToBag({PollEventsCall(IdleTick)})
    /\ UNCHANGED <<subscriptionId, eventPollInterval, initPc, lastStart, lastDone, unsubPc, unsubResult,
                   destroyed, timers, timerSeq, devSubs, faults, expiries>>
    /\ UNCHANGED exceptPoll

\* the error codes the device may answer a pull of subscription id with (0:
\* success): the truth, or, as a fault, another error
PullCodes(id) == {PullAnswer(id)} \cup (IF MayFail THEN {OtherErrorCode} ELSE {})

\* a pullEvents that resubscribes on expiry without clearing the stale id
PullAnswered_KeepsId(t, code) ==
    /\ t.pc = "pull"
    /\ code \in PullCodes(t.id)
    /\ faults' = IF code = PullAnswer(t.id) THEN faults ELSE faults + 1
    /\ LET u == [t EXCEPT !.code = code, !.id = Null]
       IN  IF code = 0
           THEN Settle(t, [u EXCEPT !.pc = "done", !.ret = "events"])
           ELSE IF code = SubscriptionExpiredCode
           THEN Settle(t, [u EXCEPT !.pc = "resub12", !.subs = @ + 1])
           ELSE Settle(t, PollEventsCatch([u EXCEPT !.err = "PullFailed"]))
    /\ UNCHANGED <<subscriptionId, eventPollInterval, initPc, lastStart,
                   unsubPc, unsubResult, destroyed, timers, timerSeq, devSubs, expiries>>
    /\ UNCHANGED exceptPoll

\* pullEvents, lines 411-427: the device answered the pull with an envelope
PullAnswered(t, code) ==
    /\ t.pc = "pull"
    /\ code \in PullCodes(t.id)
    /\ faults' = IF code = PullAnswer(t.id) THEN faults ELSE faults + 1
    /\ LET u == [t EXCEPT !.code = code, !.id = Null]
       IN  IF code = 0
           THEN /\ Settle(t, [u EXCEPT !.pc = "done", !.ret = "events"])
                /\ UNCHANGED subscriptionId
           ELSE IF IsExpiredAnswer(code)
           THEN /\ subscriptionId' = Null
                /\ Settle(t, [u EXCEPT !.pc = "resub12", !.subs = @ + 1])
           ELSE /\ Settle(t, PollEventsCatch([u EXCEPT !.err = "PullFailed"]))
                /\ UNCHANGED subscriptionId
    /\ UNCHANGED <<eventPollInterval, initPc, lastStart, unsubPc, unsubResult, destroyed, timers,
                   timerSeq, devSubs, expiries>>
    /\ UNCHANGED exceptPoll

\* pullEvents, lines 406-409: request() threw (HTTP error, timeout,
\* malformed body); the error reaches the catch block of pollEvents
PullThrows(t) ==
    /\ t.pc = "pull"
    /\ MayFail
    /\ faults' = faults + 1
    /\ Settle(t, PollEventsCatch([t EXCEPT !.err = "RequestFailed",
                                                       !.id = Null]))
    /\ UNCHANGED <<subscriptionId, eventPollInterval, initPc, lastStart, unsubPc, unsubResult,
                   destroyed, timers, timerSeq, devSubs, expiries>>
    /\ UNCHANGED exceptPoll

\* pullEvents, lines 416-417: the resubscribe after an expiry succeeded,
\* the pull returns no events
ResubscribeStored(t) ==
    /\ t.pc = "resub12"
    /\ SubscribeStored
    /\ Settle(t, [t EXCEPT !.pc = "done", !.ret = "empty"])
    /\ UNCHANGED <<eventPollInterval, initPc, lastStart, unsubPc, unsubResult, destroyed, timers,
                   timerSeq, expiries>>
    /\ UNCHANGED exceptPoll

\* pullEvents, line 416: the resubscribe after an expiry threw; the error
\* leaves pullEvents and reaches the catch block of pollEvents
ResubscribeThrows(t) ==
    /\ t.pc = "resub12"
    /\ SubscribeThrows
    /\ Settle(t, PollEventsCatch([t EXCEPT !.err = "SubscribeFailed"]))
    /\ UNCHANGED <<eventPollInterval, initPc, lastStart, unsubPc, unsubResult, destroyed, timers,
                   timerSeq, expiries>>
    /\ UNCHANGED exceptPoll

\* pollEvents, line 252: the subscribe of the catch block succeeded
CatchSubscribeStored(t) ==
    /\ t.pc = "resub"
    /\ SubscribeStored
    /\ Settle(t, [t EXCEPT !.pc = "done"])
    /\ UNCHANGED <<eventPollInterval, initPc, lastStart, unsubPc, unsubResult, destroyed, timers,
                   timerSeq, expiries>>
    /\ UNCHANGED exceptPoll

\* pollEvents, lines 253-255: the subscribe of the catch block threw
CatchSubscribeThrows(t) ==
    /\ t.pc = "resub"
    /\ SubscribeThrows
    /\ Settle(t, [t EXCEPT !.pc = "done"])
    /\ UNCHANGED <<eventPollInterval, initPc, lastStart, unsubPc, unsubResult, destroyed, timers,
                   timerSeq, expiries>>
    /\ UNCHANGED exceptPoll

(***************************************************************************)
(* Intercom2NAccessory: initialize, startEventPolling, destroy             *)
(***************************************************************************)
\* a startEventPolling without its guard on the existing timer
StartEventPollingCall_NoGuard == "subscribe"

\* startEventPolling, lines 215-223: the call. A no-op when the timer
\* exists; otherwise the subscribe request is sent and awaited.
StartEventPollingCall == IF eventPollInterval # Null THEN "done" ELSE "subscribe"

\* initialize, lines 187-200: getSystemInfo answered, startEventPolling is
\* called
SystemInfoAnswered ==
    /\ initPc = "sysinfo"
    /\ initPc' = StartEventPollingCall
    /\ lastStart' = IF StartEventPollingCall = "done" THEN "noop" ELSE "subscribe"
    /\ UNCHANGED <<subscriptionId, eventPollInterval, ticks, lastDone, unsubPc, unsubResult,
                   destroyed, timers, timerSeq, devSubs, faults,
                   expiries>>
    /\ UNCHANGED exceptPoll

\* an initialize that gives up when getSystemInfo throws
InitializeCatch_GivesUp == "failed"

\* initialize, lines 202-207: the catch block sets the timer of the retry
InitializeCatch == "retry"

\* initialize, lines 189-207: getSystemInfo threw, the catch block runs
SystemInfoThrows ==
    /\ initPc = "sysinfo"
    /\ MayFail
    /\ faults' = faults + 1
    /\ initPc' = InitializeCatch
    /\ UNCHANGED <<lastStart, subscriptionId, eventPollInterval, ticks, lastDone, unsubPc, unsubResult,
                   destroyed, timers, timerSeq, devSubs, expiries>>
    /\ UNCHANGED exceptPoll

\* initialize, line 207: the retry timer fires, initialize runs again
InitializeRetry ==
    /\ initPc = "retry"
    /\ initPc' = "sysinfo"
    /\ UNCHANGED <<lastStart, subscriptionId, eventPollInterval, ticks, lastDone, unsubPc, unsubResult,
                   destroyed, timers, timerSeq, devSubs, faults,
                   expiries>>
    /\ UNCHANGED exceptPoll

\* startEventPolling, lines 223-230: the subscribe succeeded, the interval
\* timer is created and its handle kept
StartSubscribeStored ==
    /\ initPc = "subscribe"
    /\ SubscribeStored
    /\ timerSeq < MaxTimers
    /\ timerSeq' = timerSeq + 1
    /\ timers' = timers \cup {timerSeq + 1}
    /\ eventPollInterval' = timerSeq + 1
    /\ initPc' = "done"
    /\ UNCHANGED <<lastStart, ticks, lastDone, unsubPc, unsubResult, destroyed, expiries>>
    /\ UNCHANGED exceptPoll

\* startEventPolling, lines 231-233: the subscribe threw; logged, no timer
StartSubscribeThrows ==
    /\ initPc = "subscribe"
    /\ SubscribeThrows
    /\ initPc' = "done"
    /\ UNCHANGED <<lastStart, eventPollInterval, ticks, lastDone, unsubPc, unsubResult, destroyed, timers,
                   timerSeq, expiries>>
    /\ UNCHANGED exceptPoll

\* a further call of startEventPolling, made once the previous call has
\* returned (initialize awaits each call, line 200)
StartAgain ==
    /\ initPc = "done"
    /\ ~destroyed
    /\ initPc' = StartEventPollingCall
    /\ lastStart' = IF StartEventPollingCall = "done" THEN "noop" ELSE "subscribe"
    /\ UNCHANGED <<subscriptionId, eventPollInterval, ticks, lastDone, unsubPc, unsubResult,
                   destroyed, timers, timerSeq, devSubs, faults,
                   expiries>>
    /\ UNCHANGED exceptPoll

\* unsubscribeFromEvents, lines 380-387: the call. Nothing without a
\* subscription id, otherwise the unsubscribe request of that id.
UnsubscribeCall == IF subscriptionId = Null THEN Null ELSE subscriptionId

\* destroy, lines 485-502: the timer whose handle is kept is cleared and
\* the unsubscribe is started (not awaited)
Destroy ==
    /\ ~destroyed
    /\ destroyed' = TRUE
    /\ timers' = timers \ {eventPollInterval}
    /\ eventPollInterval' = Null
    /\ unsubPc' = UnsubscribeCall
    /\ unsubResult' = IF UnsubscribeCall = Null THEN "skipped" ELSE "none"
    /\ UNCHANGED <<subscriptionId, initPc, lastStart, ticks, lastDone, timerSeq, devSubs,
                   faults, expiries>>
    /\ UNCHANGED exceptPoll

\* unsubscribeFromEvents, lines 387-393: the request succeeded; the local
\* id is cleared
UnsubscribeAnswered ==
    /\ unsubPc # Null
    /\ devSubs' = devSubs \ {unsubPc}
    /\ subscriptionId' = Null
    /\ unsubPc' = Null
    /\ unsubResult' = "unsubscribed"
    /\ UNCHANGED <<eventPollInterval, initPc, lastStart, ticks, lastDone, destroyed, timers,
                   timerSeq, faults, expiries>>
    /\ UNCHANGED exceptPoll

\* an unsubscribeFromEvents without try, catch and finally
UnsubscribeFailure_Propagates == [id |-> subscriptionId, result |-> "raised"]

\* unsubscribeFromEvents, lines 389-393: a failed request is caught and
\* logged, and the local id is cleared in the finally block
UnsubscribeFailure == [id |-> Null, result |-> "swallowed"]

\* unsubscribeFromEvents, lines 386-393: the request threw
UnsubscribeThrows ==
    /\ unsubPc # Null
    /\ MayFail
    /\ faults' = faults + 1
    /\ subscriptionId' = UnsubscribeFailure.id
    /\ unsubPc' = Null
    /\ unsubResult' = UnsubscribeFailure.result
    /\ UNCHANGED <<eventPollInterval, initPc, lastStart, ticks, lastDone, destroyed, timers,
                   timerSeq, devSubs, expiries>>
    /\ UNCHANGED exceptPoll

(***************************************************************************)
(* Specification of the event subscription                                 *)
(***************************************************************************)
\* the state after the constructor: initialize() has been called and its
\* getSystemInfo request is in flight
PollInit ==
    /\ subscriptionId = Null
    /\ eventPollInterval = Null
    /\ initPc = "sysinfo"
    /\ lastStart = "none"
    /\ ticks = EmptyBag
    /\ lastDone = IdleTick
    /\ unsubPc = Null
    /\ unsubResult = "none"
    /\ destroyed = FALSE
    /\ timers = {}
    /\ timerSeq = 0
    /\ devSubs = {}
    /\ faults = 0
    /\ expiries = 0

PollNext ==
    \/ SystemInfoAnswered
    \/ SystemInfoThrows
    \/ InitializeRetry
    \/ StartSubscribeStored
    \/ StartSubscribeThrows
    \/ StartAgain
    \/ Tick
    \/ \E t \in BagToSet(ticks) : \E code \in {0, SubscriptionExpiredCode, OtherErrorCode} :
          PullAnswered(t, code)
    \/ \E t \in BagToSet(ticks) : PullThrows(t)
    \/ \E t \in BagToSet(ticks) : ResubscribeStored(t)
    \/ \E t \in BagToSet(ticks) : ResubscribeThrows(t)
    \/ \E t \in BagToSet(ticks) : CatchSubscribeStored(t)
    \/ \E t \in BagToSet(ticks) : CatchSubscribeThrows(t)
    \/ \E id \in 1 .. MaxSub : Expire(id)
    \/ Destroy
    \/ UnsubscribeAnswered
    \/ UnsubscribeThrows

(***************************************************************************)
(* CameraSource: stream sessions                                           *)
(***************************************************************************)
SessionIds == 1 .. MaxSessions

\* the processes spawned for session id that are running
RunningFor(id) ==
    {p \in DOMAIN procs : procs[p].session = id /\ procs[p].state = "running"}

\* ChildProcess.kill('SIGKILL'): a running process is killed, a process that
\* has ended or never started is left as it is
Kill(p, ps) ==
    IF p # Null /\ ps[p].state = "running"
    THEN [ps EXCEPT ![p].state = "killed", ![p].signals = @ + 1]
    ELSE ps

\* the part of a prepare request or response that is absent
NoSection == [port |-> 0, ssrc |-> "none", key |-> "none"]

\* a section of a prepare request: the port and the key material (srtp_key
\* and srtp_salt); a request carries no SSRC
Section(port, key) == [port |-> port, ssrc |-> "none", key |-> key]

\* the prepare requests of HomeKit: video only, video and audio
PrepareRequests ==
    {[video |-> Section(5000, "k1"), audio |-> NoSection],
     [video |-> Section(5002, "k2"), audio |-> Section(5004, "k3")]}

\* the values generateSynchronisationSource may give
Ssrcs == {"s1", "s2"}

\* the two values it gives to one prepareStream, the video one first
SsrcPairs == {<<"s1", "s2">>}

\* prepareStream, lines 103-114: the session info made of the request and
\* the two generated SSRCs v and a
SessionInfoOf(req, v, a) ==
    [videoPort |-> req.video.port, videoSRTP |-> req.video.key, videoSSRC |-> v,
     audioPort |-> req.audio.port, audioSRTP |-> req.audio.key, audioSSRC |-> a]

\* a prepare response that has an audio section whatever the request
PrepareResponse_AlwaysAudio(req, info) ==
    [video |-> [req.video EXCEPT !.ssrc = info.videoSSRC],
     audio |-> [req.audio EXCEPT !.ssrc = info.audioSSRC]]

\* prepareStream, lines 118-134: the response
PrepareResponse(req, info) ==
    [video |-> [req.video EXCEPT !.ssrc = info.videoSSRC],
     audio |-> IF req.audio # NoSection
               THEN [req.audio EXCEPT !.ssrc = info.audioSSRC]
               ELSE NoSection]

\* what a handler that only acknowledges gives to its callback: one call,
\* without an error and without a prepare response
Acknowledged == [callbacks |-> 1, error |-> FALSE, prepared |-> FALSE]

\* prepareStream, lines 103-137, for the request req and the SSRCs v and a
Prepared(req, v, a) ==
    [callbacks |-> 1, error |-> FALSE, prepared |-> TRUE, request |-> req,
     info |-> SessionInfoOf(req, v, a),
     response |-> PrepareResponse(req, SessionInfoOf(req, v, a))]

\* a prepareStream that keeps the record of one session only
PrepareStream_SingleSlot(id) ==
    /\ pendingSessions' = {id}
    /\ streamLast' = [op |-> "prepare", id |-> id, ok |-> TRUE]
    /\ \E req \in PrepareRequests : \E p \in SsrcPairs :
          streamOut' = Prepared(req, p[1], p[2])
    /\ UNCHANGED <<activeSessions, procs>>
    /\ UNCHANGED exceptStream

\* prepareStream, lines 97-138: the session info is stored under the id and
\* the response given to the callback
PrepareStream(id) ==
    /\ pendingSessions' = pendingSessions \cup {id}
    /\ streamLast' = [op |-> "prepare", id |-> id, ok |-> TRUE]
    /\ \E req \in PrepareRequests : \E p \in SsrcPairs :
          streamOut' = Prepared(req, p[1], p[2])
    /\ UNCHANGED <<activeSessions, procs>>
    /\ UNCHANGED exceptStream

\* a startStream that does not look for the session info
HasSessionInfo_Always(id) == TRUE

\* startStream, lines 178-179: the session info prepareStream stored
HasSessionInfo(id) == id \in pendingSessions

\* startStream, lines 178-182: no session info for the id; logged as an
\* error, nothing else happens
StartStreamUnknown(id) ==
    /\ ~HasSessionInfo(id)
    /\ streamLast' = [op |-> "start", id |-> id, ok |-> FALSE]
    /\ streamOut' = Acknowledged
    /\ UNCHANGED <<pendingSessions, activeSessions, procs>>
    /\ UNCHANGED exceptStream

\* startStream, lines 184-241: the session info is taken, ffmpeg is spawned
\* (it runs, or it fails to start) and stored as the id's active session
StartStream(id, started) ==
    /\ HasSessionInfo(id)
    /\ Len(procs) < MaxProcs
    /\ pendingSessions' = pendingSessions \ {id}
    /\ procs' = Append(procs, [session |-> id,
                              state |-> IF started THEN "running" ELSE "failed",
                              signals |-> 0])
    /\ activeSessions' = [activeSessions EXCEPT ![id] = Len(procs) + 1]
    /\ streamLast' = [op |-> "start", id |-> id, ok |-> TRUE]
    /\ streamOut' = Acknowledged
    /\ UNCHANGED exceptStream

\* a stopStream that removes the pending record only when the id has no
\* active one
StopStream_EitherOr(id) ==
    /\ procs' = Kill(activeSessions[id], procs)
    /\ activeSessions' = [activeSessions EXCEPT ![id] = Null]
    /\ pendingSessions' = IF activeSessions[id] # Null
                          THEN pendingSessions
                          ELSE pendingSessions \ {id}
    /\ streamLast' = [op |-> "stop", id |-> id, ok |-> TRUE]
    /\ streamOut' = Acknowledged
    /\ UNCHANGED exceptStream

\* stopStream, lines 315-338: the process of the id's active session is
\* killed and the record removed; the pending record is removed too
StopStream(id) ==
    /\ procs' = Kill(activeSessions[id], procs)
    /\ activeSessions' = [activeSessions EXCEPT ![id] = Null]
    /\ pendingSessions' = pendingSessions \ {id}
    /\ streamLast' = [op |-> "stop", id |-> id, ok |-> TRUE]
    /\ streamOut' = Acknowledged
    /\ UNCHANGED exceptStream

\* an exit handler that starts ffmpeg again for the session
ProcessExits_Restarts(p) ==
    /\ p \in DOMAIN procs
    /\ procs[p].state = "running"
    /\ Len(procs) < MaxProcs
    /\ procs' = Append([procs EXCEPT ![p].state = "exited"],
                       [session |-> procs[p].session, state |-> "running",
                        signals |-> 0])
    /\ activeSessions' = [activeSessions EXCEPT ![procs[p].session] = Len(procs) + 1]
    /\ UNCHANGED <<pendingSessions, streamLast, streamOut>>
    /\ UNCHANGED exceptStream

\* startStream, lines 230-238: ffmpeg ends on its own; logged, nothing else
ProcessExits(p) ==
    /\ p \in DOMAIN procs
    /\ procs[p].state = "running"
    /\ procs' = [procs EXCEPT ![p].state = "exited"]
    /\ UNCHANGED <<pendingSessions, activeSessions, streamLast, streamOut>>
    /\ UNCHANGED exceptStream

\* handleStreamRequest, lines 156-160: a reconfigure request is acknowledged
ReconfigureStream(id) ==
    /\ streamLast' = [op |-> "reconfigure", id |-> id, ok |-> TRUE]
    /\ streamOut' = Acknowledged
    /\ UNCHANGED <<pendingSessions, activeSessions, procs>>
    /\ UNCHANGED exceptStream

\* a handleSnapshotRequest that only logs when getSnapshot throws
HandleSnapshotRequest_ErrorDropped(ok) ==
    /\ streamLast' = [op |-> "snapshot", id |-> Null, ok |-> ok]
    /\ streamOut' = IF ok THEN Acknowledged ELSE [Acknowledged EXCEPT !.callbacks = 0]
    /\ UNCHANGED <<pendingSessions, activeSessions, procs>>
    /\ UNCHANGED exceptStream

\* handleSnapshotRequest, lines 78-92: the handler changes nothing before it
\* awaits getSnapshot; getSnapshot then returns the image (ok), which is
\* given to the callback, or throws, and the callback gets the error
HandleSnapshotRequest(ok) ==
    /\ streamLast' = [op |-> "snapshot", id |-> Null, ok |-> ok]
    /\ streamOut' = [Acknowledged EXCEPT !.error = ~ok]
    /\ UNCHANGED <<pendingSessions, activeSessions, procs>>
    /\ UNCHANGED exceptStream

StreamInit ==
    /\ pendingSessions = {}
    /\ activeSessions = [id \in SessionIds |-> Null]
    /\ procs = << >>
    /\ streamLast = [op |-> "none", id |-> Null, ok |-> TRUE]
    /\ streamOut = [Acknowledged EXCEPT !.callbacks = 0]

StreamNext ==
    \/ \E id \in SessionIds : PrepareStream(id)
    \/ \E id \in SessionIds : StartStreamUnknown(id)
    \/ \E id \in SessionIds : \E started \in BOOLEAN : StartStream(id, started)
    \/ \E id \in SessionIds : StopStream(id)
    \/ \E p \in 1 .. MaxProcs : ProcessExits(p)
    \/ \E id \in SessionIds : ReconfigureStream(id)
    \/ \E ok \in BOOLEAN : HandleSnapshotRequest(ok)

(***************************************************************************)
(* Api2NClient: authentication of request() and getSnapshot()              *)
(***************************************************************************)
\* a response without a WWW-Authenticate header
NoHeader == [scheme |-> "none", realm |-> FALSE, nonce |-> Null]

\* the WWW-Authenticate headers the device may send: a scheme, whether a
\* realm parameter is present, and the nonce parameter (Null: absent)
Headers ==
    {[scheme |-> "basic", realm |-> TRUE, nonce |-> Null],
     [scheme |-> "digest", realm |-> FALSE, nonce |-> 1],
     [scheme |-> "digest", realm |-> TRUE, nonce |-> Null]}
    \cup {[scheme |-> "digest", realm |-> TRUE, nonce |-> n] : n \in 1 .. MaxNonce}

\* the lengths of the bodies of the error responses: as long as the excerpt
\* an HTTP error carries, longer
BodyLens == {ExcerptLen, ExcerptLen + 1}

\* the bodies a response may hold: text that is not JSON, the JSON null, a
\* JSON value without a success member (such as {}), an envelope with
\* success false, an envelope with success true
Bodies == {"text", "null", "object", "failure", "success"}

\* the responses makeRequest may resolve with: status, WWW-Authenticate
\* header, body and length of the body
Responses ==
    {[status |-> 200, hdr |-> NoHeader, body |-> b, len |-> 1] : b \in Bodies}
    \cup {[status |-> 401, hdr |-> h, body |-> "text", len |-> 1] :
            h \in Headers \cup {NoHeader}}
    \cup {[status |-> 500, hdr |-> NoHeader, body |-> "text", len |-> n] :
            n \in BodyLens}

\* lastDigestChallenge = null
\* the responses to the request of a call of the kind: the body of a
\* snapshot response is image data, which getSnapshot does not look into
\* (lines 478-484)
ResponsesTo(kind) ==
    IF kind = "request" THEN Responses
    ELSE {r \in Responses : r.body = "text" /\ r.len <= ExcerptLen}

NoChallenge == [realm |-> FALSE, nonce |-> Null]

\* a parser that asks for the nonce only
parseDigestChallenge_NonceOnly(header) ==
    IF header.scheme = "digest" /\ header.nonce # Null
    THEN [realm |-> TRUE, nonce |-> header.nonce]
    ELSE NoChallenge

\* parseDigestChallenge, lines 69-100: null unless the header is a Digest
\* one with a realm and a nonce
parseDigestChallenge(header) ==
    IF header.scheme # "digest"
    THEN NoChallenge
    ELSE IF header.realm /\ header.nonce # Null
    THEN [realm |-> TRUE, nonce |-> header.nonce]
    ELSE NoChallenge

\* no Authorization header
NoAuth == [scheme |-> "none", nonce |-> Null, nc |-> 0]

BasicAuth == [scheme |-> "Basic", nonce |-> Null, nc |-> 0]

\* generateDigestAuth, lines 105-148: the header computed for the challenge
\* with the counter value count
generateDigestAuth(challenge, count) ==
    [scheme |-> "Digest", nonce |-> challenge.nonce, nc |-> count]

\* makeRequest did not resolve
NoResponse == [status |-> 0, hdr |-> NoHeader, body |-> "text", len |-> 0]

\* a body excerpt that is the whole body
Excerpt_WholeBody(len) == len

\* request, line 263: substring(0, 200) of a body of length len
Excerpt(len) == IF len > ExcerptLen THEN ExcerptLen ELSE len

\* what a call returns or what the error it throws carries
NoDetail == [value |-> "none", status |-> 0, excerpt |-> 0]

\* request, line 263: the HTTP error carries the status and the excerpt;
\* lines 266-271: the parsed value is returned whatever its success member
\* is, also when it has none; getSnapshot, lines 479-484: the status, or
\* the buffer
Detail(kind, r, result) ==
    IF result = "HttpError"
    THEN [NoDetail EXCEPT !.status = r.status, !.excerpt = Excerpt(r.len)]
    ELSE IF result = "SnapshotFailed"
    THEN [NoDetail EXCEPT !.status = r.status]
    ELSE IF result = "ok"
    THEN [NoDetail EXCEPT !.value = IF kind = "snapshot" THEN "buffer" ELSE r.body]
    ELSE NoDetail

\* a step of the call c: what it did (op), on which response, the
\* Authorization header it sent, what the call returned or threw
Step(op, c, r, auth, result) ==
    [op |-> op, kind |-> c.kind, attempts |-> c.attempts, sent |-> c.scheme,
     status |-> r.status, hdr |-> r.hdr, body |-> r.body, len |-> r.len, auth |-> auth, result |-> result,
     detail |-> Detail(c.kind, r, result)]

\* a client that makes no use of the cached challenge
FirstScheme_AlwaysBasic == "Basic"

\* request, lines 211-215, and getSnapshot, lines 444-448: the scheme of
\* the first attempt's Authorization header
FirstScheme == IF lastDigestChallenge # NoChallenge THEN "Digest" ELSE "Basic"

\* request, lines 209-215, and getSnapshot, lines 443-449: the first attempt
\* carries a Digest header if a challenge is cached, else a Basic one
CallStart(kind) ==
    /\ BagCardinality(calls) < MaxCalls
    /\ LET c == [kind |-> kind, attempts |-> 1, scheme |-> FirstScheme]
       IN  /\ calls' = calls (+) SetToBag({c})
           /\ IF FirstScheme = "Digest"
              THEN LET auth == generateDigestAuth(lastDigestChallenge, nonceCount + 1)
                   IN  /\ nonceCount < MaxCount
                       /\ nonceCount' = nonceCount + 1
                       /\ issued' = issued \cup {<<auth.nonce, auth.nc>>}
                       /\ lastStep' = Step("start", c, NoResponse, auth, "none")
              ELSE /\ lastStep' = Step("start", c, NoResponse, BasicAuth, "none")
                   /\ UNCHANGED <<nonceCount, issued>>
    /\ UNCHANGED lastDigestChallenge
    /\ UNCHANGED exceptAuth

\* a request() that looks for a challenge in every response
ChallengeHandled_EveryResponse(c, r) == r.status = 401 /\ r.hdr # NoHeader

\* a client whose getSnapshot does not look for a challenge
ChallengeHandled_RequestOnly(c, r) ==
    c.kind = "request" /\ c.attempts = 1 /\ r.status = 401 /\ r.hdr # NoHeader

\* a client that takes a challenge only in answer to a Basic header
ChallengeHandled_BasicOnly(c, r) ==
    c.attempts = 1 /\ c.scheme = "Basic" /\ r.status = 401 /\ r.hdr # NoHeader

\* request, line 235, and getSnapshot, line 465: only the response to the
\* first attempt is looked at for a challenge
ChallengeHandled(c, r) == c.attempts = 1 /\ r.status = 401 /\ r.hdr # NoHeader

\* request, lines 266-275: the try block goes through for a body that
\* JSON.parse accepts and whose value has members to read; JSON.parse throws
\* on other text and reading .success of null throws, both into the catch
Parses(body) == body \notin {"text", "null"}

\* request, lines 256-276, and getSnapshot, lines 478-484: what the call
\* makes of its last response
Classify(kind, r) ==
    IF kind = "request"
    THEN IF r.status = 401 THEN "AuthFailed"
         ELSE IF r.status # 200 THEN "HttpError"
         ELSE IF ~Parses(r.body) THEN "ParseFailed"
         ELSE "ok"
    ELSE IF r.status # 200 THEN "SnapshotFailed" ELSE "ok"

\* a client that forgets its challenge when the device answers 401 to it
ChallengeOnReturn_ForgottenOn401(r) ==
    IF r.status = 401 THEN NoChallenge ELSE lastDigestChallenge

\* request, lines 250-276, and getSnapshot, lines 478-484: a call that ends,
\* by a return or a throw, assigns nothing to this.lastDigestChallenge
ChallengeOnReturn(r) == lastDigestChallenge

\* a counter that goes on counting when a challenge is cached
CountOnCaching_GoesOn == nonceCount

\* request, line 242, and getSnapshot, line 468: this.nonceCount = 0
CountOnCaching == 0

\* request, lines 232-276, and getSnapshot, lines 462-484: makeRequest
\* resolved with the response r
CallAnswered(c, r) ==
    /\ c \in BagToSet(calls)
    /\ r \in ResponsesTo(c.kind)
    /\ LET challenge == parseDigestChallenge(r.hdr)
       IN  IF ChallengeHandled(c, r) /\ challenge # NoChallenge
           THEN LET auth == generateDigestAuth(challenge, CountOnCaching + 1)
                IN  /\ lastDigestChallenge' = challenge
                    /\ nonceCount' = CountOnCaching + 1
                    /\ issued' = issued \cup {<<auth.nonce, auth.nc>>}
                    /\ calls' = (calls (-) SetToBag({c}))
                                (+) SetToBag({[c EXCEPT !.attempts = @ + 1,
                                                       !.scheme = auth.scheme]})
                    /\ lastStep' = Step("retry", c, r, auth, "none")
           ELSE LET result == IF ChallengeHandled(c, r) /\ c.kind = "request"
                              THEN "Unsupported"
                              ELSE Classify(c.kind, r)
                IN  /\ calls' = calls (-) SetToBag({c})
                    /\ lastStep' = Step(IF result = "ok" THEN "return" ELSE "throw",
                                        c, r, NoAuth, result)
                    /\ lastDigestChallenge' = ChallengeOnReturn(r)
                    /\ UNCHANGED <<nonceCount, issued>>
    /\ UNCHANGED exceptAuth

\* makeRequest, lines 183-190: the request failed or timed out; the call
\* throws that error
CallFails(c) ==
    /\ c \in BagToSet(calls)
    /\ calls' = calls (-) SetToBag({c})
    /\ lastStep' = Step("throw", c, NoResponse, NoAuth, "RequestFailed")
    /\ UNCHANGED <<lastDigestChallenge, nonceCount, issued>>
    /\ UNCHANGED exceptAuth

AuthInit ==
    /\ lastDigestChallenge = NoChallenge
    /\ nonceCount = 0
    /\ calls = EmptyBag
    /\ issued = {}
    /\ lastStep = Step("none", [kind |-> "none", attempts |-> 0, scheme |-> "none"], NoResponse,
                       NoAuth, "none")

AuthNext ==
    \/ \E kind \in {"request", "snapshot"} : CallStart(kind)
    \/ \E c \in BagToSet(calls) : \E r \in ResponsesTo(c.kind) : CallAnswered(c, r)
    \/ \E c \in BagToSet(calls) : CallFails(c)

(***************************************************************************)
(* Api2NClient: setSwitchState                                             *)
(***************************************************************************)
SwitchIds == 1 .. MaxSwitch

\* SwitchAction, settings.ts lines 82-86
SwitchActions == {"on", "off", "trigger"}

\* an envelope without an error member
NoError == [code |-> Null, message |-> "none"]

\* the envelopes {success, error?: {code, message}} the device may answer
Envelopes ==
    {[success |-> TRUE, error |-> NoError]}
    \cup {[success |-> FALSE, error |-> e] :
            e \in {NoError} \cup {[code |-> c, message |-> "busy"] :
                                    c \in {OtherErrorCode, SubscriptionExpiredCode}}}

\* new Error(text): an Error object has a message and no code member
NewError(text) == [thrown |-> TRUE, message |-> text, code |-> Null]

NoThrow == [thrown |-> FALSE, message |-> "none", code |-> Null]

\* setSwitchState, lines 339-341: a call whose envelope says success:false
\* throws an Error made of the envelope's message
SwitchOutcome(envelope) ==
    IF ~envelope.success
    THEN NewError(IF envelope.error # NoError
                  THEN envelope.error.message
                  ELSE "Unknown error")
    ELSE NoThrow

\* setSwitchState, lines 331-337: the call sends its request
SetSwitchStateCall(switch, action) ==
    /\ BagCardinality(switchCalls) < MaxSwitchCalls
    /\ switchCalls' = switchCalls (+) SetToBag({[switch |-> switch, action |-> action]})
    /\ UNCHANGED switchLast
    /\ UNCHANGED exceptSwitch

\* setSwitchState, lines 334-343: request() returned the envelope
SwitchAnswered(c, envelope) ==
    /\ c \in BagToSet(switchCalls)
    /\ envelope \in Envelopes
    /\ switchCalls' = switchCalls (-) SetToBag({c})
    /\ switchLast' = [call |-> c, answered |-> TRUE, envelope |-> envelope,
                      error |-> SwitchOutcome(envelope)]
    /\ UNCHANGED exceptSwitch

\* setSwitchState, lines 334-337: request() threw; the error leaves
\* setSwitchState as it is
SwitchRequestThrows(c) ==
    /\ c \in BagToSet(switchCalls)
    /\ switchCalls' = switchCalls (-) SetToBag({c})
    /\ switchLast' = [call |-> c, answered |-> FALSE,
                      envelope |-> [success |-> FALSE, error |-> NoError],
                      error |-> NewError("RequestFailed")]
    /\ UNCHANGED exceptSwitch

SwitchInit ==
    /\ switchCalls = EmptyBag
    /\ switchLast = [call |-> [switch |-> Null, action |-> "none"],
                     answered |-> FALSE,
                     envelope |-> [success |-> FALSE, error |-> NoError],
                     error |-> NoThrow]

SwitchNext ==
    \/ \E switch \in SwitchIds : \E action \in SwitchActions :
            SetSwitchStateCall(switch, action)
    \/ \E c \in BagToSet(switchCalls) : \E envelope \in Envelopes :
            SwitchAnswered(c, envelope)
    \/ \E c \in BagToSet(switchCalls) : SwitchRequestThrows(c)

(***************************************************************************)
(* Specifications                                                          *)
(***************************************************************************)
(***************************************************************************)
(* Api2NClient.makeRequest: one HTTP request and the promise it returns    *)
(***************************************************************************)
\* a makeRequest() before its request is sent
NoRequest == [socket |-> "none", response |-> FALSE, chunks |-> 0, quiet |-> FALSE,
              promise |-> "none", reason |-> "none", settles |-> 0]

\* resolve or reject called on the promise of the request q (line 157): the
\* first call settles it, a later one changes nothing
SettlePromise(q, state, reason) ==
    IF q.promise = "pending"
    THEN [q EXCEPT !.promise = state, !.reason = reason, !.settles = @ + 1]
    ELSE [q EXCEPT !.settles = @ + 1]

\* lines 157-189: the request is sent, the handlers and the 10 s socket
\* timeout are set, the pending promise is returned
MakeRequest ==
    /\ Len(requests) < MaxRequests
    /\ requests' = Append(requests, [NoRequest EXCEPT !.socket = "open",
                                                      !.promise = "pending"])
    /\ UNCHANGED exceptNet

\* lines 163-178: the status line and the headers have arrived; the
\* callback puts a 'data' and an 'end' handler on the response
Response(r) ==
    /\ r \in DOMAIN requests
    /\ requests[r].socket = "open"
    /\ ~requests[r].response
    /\ ~requests[r].quiet
    /\ requests' = [requests EXCEPT ![r] = [@ EXCEPT !.response = TRUE]]
    /\ UNCHANGED exceptNet

\* lines 166-168: a chunk of the body has arrived
ResponseData(r) ==
    /\ r \in DOMAIN requests
    /\ requests[r].socket = "open"
    /\ requests[r].response
    /\ ~requests[r].quiet
    /\ requests[r].chunks < MaxChunks
    /\ requests' = [requests EXCEPT ![r] = [@ EXCEPT !.chunks = @ + 1]]
    /\ UNCHANGED exceptNet

\* lines 170-177: the body is complete; the promise is resolved
ResponseEnd(r) ==
    /\ r \in DOMAIN requests
    /\ requests[r].socket = "open"
    /\ requests[r].response
    /\ ~requests[r].quiet
    /\ requests' = [requests EXCEPT
                       ![r] = [SettlePromise(@, "fulfilled", "response") EXCEPT !.socket = "closed"]]
    /\ UNCHANGED exceptNet

\* lines 179-181: the connection failed before a response arrived; the
\* request emits 'error' and the promise is rejected
RequestError(r) ==
    /\ r \in DOMAIN requests
    /\ requests[r].socket = "open"
    /\ ~requests[r].response
    /\ ~requests[r].quiet
    /\ requests' = [requests EXCEPT
                       ![r] = [SettlePromise(@, "rejected", "error") EXCEPT !.socket = "closed"]]
    /\ UNCHANGED exceptNet

\* lines 163-178: the connection is closed after the headers and before the
\* end of the body; the response emits 'aborted' and not 'end', and
\* makeRequest has put no handler on the response for it
ConnectionLost(r) ==
    /\ r \in DOMAIN requests
    /\ requests[r].socket = "open"
    /\ requests[r].response
    /\ ~requests[r].quiet
    /\ requests' = [requests EXCEPT ![r] = [@ EXCEPT !.socket = "closed"]]
    /\ UNCHANGED exceptNet

\* line 184: the socket has seen no activity for the 10 s of setTimeout
Quiet(r) ==
    /\ r \in DOMAIN requests
    /\ requests[r].socket = "open"
    /\ ~requests[r].quiet
    /\ requests' = [requests EXCEPT ![r] = [@ EXCEPT !.quiet = TRUE]]
    /\ UNCHANGED exceptNet

\* lines 184-187: the timeout callback destroys the request and rejects the
\* promise; a request destroyed before its response emits 'error' next
SocketTimeout(r) ==
    /\ r \in DOMAIN requests
    /\ requests[r].socket = "open"
    /\ requests[r].quiet
    /\ requests' = [requests EXCEPT
                       ![r] = [SettlePromise(@, "rejected", "timeout") EXCEPT
                                  !.socket = IF requests[r].response THEN "closed"
                                             ELSE "destroyed"]]
    /\ UNCHANGED exceptNet

\* lines 179-181: the 'error' of the destroyed request; reject is called on
\* the promise once more
DestroyedError(r) ==
    /\ r \in DOMAIN requests
    /\ requests[r].socket = "destroyed"
    /\ requests' = [requests EXCEPT
                       ![r] = [SettlePromise(@, "rejected", "error") EXCEPT !.socket = "closed"]]
    /\ UNCHANGED exceptNet

\* what the device and the network do to the request r, or the 10 s of
\* silence they leave
SocketEvent(r) ==
    \/ Response(r)
    \/ ResponseData(r)
    \/ ResponseEnd(r)
    \/ RequestError(r)
    \/ ConnectionLost(r)
    \/ Quiet(r)

NetInit == requests = << >>

NetNext ==
    \/ MakeRequest
    \/ \E r \in 1 .. MaxRequests : Response(r)
    \/ \E r \in 1 .. MaxRequests : ResponseData(r)
    \/ \E r \in 1 .. MaxRequests : ResponseEnd(r)
    \/ \E r \in 1 .. MaxRequests : RequestError(r)
    \/ \E r \in 1 .. MaxRequests : ConnectionLost(r)
    \/ \E r \in 1 .. MaxRequests : Quiet(r)
    \/ \E r \in 1 .. MaxRequests : SocketTimeout(r)
    \/ \E r \in 1 .. MaxRequests : DestroyedError(r)

(***************************************************************************)
(* Intercom2NAccessory.handleEvent: what an event of the device sets off   *)
(***************************************************************************)
\* a JSON value of an event parameter: its type and its text
Val(type, text) == [type |-> type, text |-> text]

\* a parameter the event does not have
NoVal == Val("undefined", "")

\* String(v), line 272: the text of the value as a string
String(v) == Val("string", v.text)

\* the keys the device reports, as a JSON string or as a JSON number
Keys == {Val(t, k) : t \in {"string", "number"}, k \in {"1", "2"}}

\* the states a SwitchStateChanged or an InputChanged event reports
States == {Val("boolean", "true"), Val("boolean", "false"), Val("string", "true"),
           Val("number", "1"), Val("string", "1"), Val("number", "0")}

\* the events pullEvents may deliver
Events ==
    {[event |-> "KeyPressed", key |-> k, state |-> NoVal, direction |-> NoVal] : k \in Keys}
    \cup {[event |-> n, key |-> NoVal, state |-> s, direction |-> NoVal] :
            n \in {"SwitchStateChanged", "InputChanged"}, s \in States}
    \cup {[event |-> "CallStateChanged", key |-> NoVal, state |-> Val("string", s),
           direction |-> Val("string", d)] :
            s \in {"ringing", "connecting", "connected"}, d \in {"incoming", "outgoing"}}
    \cup {[event |-> n, key |-> NoVal, state |-> NoVal, direction |-> NoVal] :
            n \in {"MotionDetected", "KeyReleased"}}

\* the values of context.doorbellButton: not set, the empty string, a key
Contexts == {NoVal, Val("string", ""), Val("string", "1"), Val("string", "2")}

\* a doorbell button without a default
doorbellButton_NoDefault(ctx) == ctx

\* line 267: context.doorbellButton || '1'
doorbellButton(ctx) == IF ctx = NoVal \/ ctx.text = "" THEN Val("string", "1") ELSE ctx

\* lines 269-324: what handleEvent does with the event e: "doorbell" for a
\* call of triggerDoorbell, "lock" for an update of the lock state, "none"
handleEvent(ctx, e) ==
    CASE e.event = "KeyPressed" ->
            IF String(e.key) = doorbellButton(ctx) THEN "doorbell" ELSE "none"
      [] e.event = "SwitchStateChanged" -> "lock"
      [] e.event = "InputChanged" ->
            IF e.state \in {Val("boolean", "true"), Val("string", "true"),
                            Val("number", "1"), Val("string", "1")}
            THEN "doorbell" ELSE "none"
      [] e.event = "CallStateChanged" ->
            IF \/ e.state \in {Val("string", "ringing"), Val("string", "connecting")}
               \/ e.direction = Val("string", "outgoing")
            THEN "doorbell" ELSE "none"
      [] OTHER -> "none"

\* lines 283-287: the lock state a SwitchStateChanged event gives
LockStateOf(e) ==
    IF e.state \in {Val("boolean", "true"), Val("string", "true")}
    THEN "UNSECURED" ELSE "SECURED"

\* subscribeToEvents, line 362: the event types of the include parameter of
\* the subscribe request
include == {"KeyPressed", "KeyReleased", "SwitchStateChanged", "MotionDetected"}

\* the event types handleEvent has a case for (lines 270, 281, 294, 299, 311)
Cases == {"KeyPressed", "SwitchStateChanged", "MotionDetected", "InputChanged",
          "CallStateChanged"}

\* pollEvents, lines 241-245, and handleEvent, lines 263-325: an event of
\* the device that is of a subscribed type comes with a pull and is handled
HandleEventCall(e) ==
    /\ e \in Events
    /\ e.event \in include
    /\ LET action == handleEvent(context, e)
       IN  /\ action = "doorbell" => rings < MaxRings
           /\ rings' = IF action = "doorbell" THEN rings + 1 ELSE rings
           /\ lockCurrentState' = IF action = "lock" THEN LockStateOf(e)
                                  ELSE lockCurrentState
           /\ eventLast' = [event |-> e, action |-> action]
    /\ UNCHANGED context
    /\ UNCHANGED exceptEvent

\* subscribeToEvents, lines 359-364: an event of the device that is of a
\* type the subscription does not include comes with no pull; handleEvent
\* is not called for it
EventFiltered(e) ==
    /\ e \in Events
    /\ e.event \notin include
    /\ eventLast' = [event |-> e, action |-> "filtered"]
    /\ UNCHANGED <<context, lockCurrentState, rings>>
    /\ UNCHANGED exceptEvent

\* the event of an accessory that has handled none
NoEvent == [event |-> "none"]

\* platform.ts, lines 102 and 130: the platform puts the configured button
\* into the context of the accessory before it makes the accessory
SetContext(ctx) ==
    /\ ctx \in Contexts
    /\ eventLast.event = NoEvent
    /\ context' = ctx
    /\ UNCHANGED <<lockCurrentState, rings, eventLast>>
    /\ UNCHANGED exceptEvent

\* the context without a configured button, the lock secured
EventInit ==
    /\ context = NoVal
    /\ lockCurrentState = "SECURED"
    /\ rings = 0
    /\ eventLast = [event |-> NoEvent, action |-> "none"]

EventNext ==
    \/ \E ctx \in Contexts : SetContext(ctx)
    \/ \E e \in Events : HandleEventCall(e)
    \/ \E e \in Events : EventFiltered(e)

(***************************************************************************)
(* CameraSource.startStream: the handler of the stderr of ffmpeg           *)
(***************************************************************************)
\* the words of an output: the word error in four spellings, and another
Words == {"error", "Error", "ERROR", "eRRoR", "frame"}

\* a word in lower case
LowerCase(w) == IF w = "frame" THEN "frame" ELSE "error"

\* the outputs of ffmpeg: one to MaxWords words
Messages == UNION {[1 .. n -> Words] : n \in 1 .. MaxWords}

\* message.includes(word)
includes(message, word) == \E i \in DOMAIN message : message[i] = word

\* lines 219-223: the level the output is logged at
StderrLevel(message) ==
    IF includes(message, "error") \/ includes(message, "Error") THEN "error" ELSE "debug"

\* lines 216-224: ffmpeg has written the message to its stderr
StderrData(message) ==
    /\ stderrLast' = [message |-> message, level |-> StderrLevel(message)]
    /\ UNCHANGED exceptLog

LogInit == stderrLast = [message |-> << >>, level |-> "none"]

LogNext == \E message \in Messages : StderrData(message)

(***************************************************************************)
(* Api2NClient.generateDigestAuth: the computation of the header           *)
(***************************************************************************)
\* a parameter the challenge does not have
Absent == "absent"

\* the challenges of the device: realm and nonce, with or without qop,
\* opaque and algorithm
DigestChallenges ==
    {[realm |-> "2N", nonce |-> n, qop |-> q, opaque |-> o, algorithm |-> a] :
        n \in {"n1", "n2"}, q \in {Absent, "auth", "auth-int"}, o \in {Absent},
        a \in {Absent, "MD5", "SHA-256"}}

\* the values of this.nonceCount after line 107
Counts == {1, 17}

\* the values of crypto.randomBytes(8).toString('hex')
Cnonces == {"c1", "c2"}

\* line 108: toString(16).padStart(8, '0'), the eight hex digits of count
Hex8(count) == [i \in 1 .. 8 |-> (count \div (16 ^ (8 - i))) % 16]

\* the hex digest of the parts joined with colons, by the named hash
Hash(name, parts) == [hash |-> name, of |-> parts]

\* a response made with the hash the challenge names
digestResponse_HashByAlgorithm(username, password, method, uri, challenge, nc, cnonce) ==
    LET name == IF challenge.algorithm = Absent THEN "md5" ELSE challenge.algorithm
        ha1 == Hash(name, <<username, challenge.realm, password>>)
        ha2 == Hash(name, <<method, uri>>)
    IN  IF challenge.qop # Absent
        THEN Hash(name, <<ha1, challenge.nonce, nc, cnonce, "auth", ha2>>)
        ELSE Hash(name, <<ha1, challenge.nonce, ha2>>)

\* lines 111-132: HA1, HA2 and the response
digestResponse(username, password, method, uri, challenge, nc, cnonce) ==
    LET ha1 == Hash("md5", <<username, challenge.realm, password>>)
        ha2 == Hash("md5", <<method, uri>>)
    IN  IF challenge.qop # Absent
        THEN Hash("md5", <<ha1, challenge.nonce, nc, cnonce, "auth", ha2>>)
        ELSE Hash("md5", <<ha1, challenge.nonce, ha2>>)

\* the nc of a header without one
NoNc == << >>

\* lines 134-145: the parameters of the header after username, realm, nonce,
\* uri and response: qop=auth, nc and cnonce when the challenge has a qop,
\* the opaque of the challenge, the algorithm when it is not MD5
digestHeader(challenge, nc, cnonce) ==
    [qop |-> IF challenge.qop # Absent THEN "auth" ELSE Absent,
     nc |-> IF challenge.qop # Absent THEN nc ELSE NoNc,
     cnonce |-> IF challenge.qop # Absent THEN cnonce ELSE Absent,
     opaque |-> challenge.opaque,
     algorithm |-> IF challenge.algorithm \notin {Absent, "MD5"}
                   THEN challenge.algorithm ELSE Absent]

\* lines 105-147, for a client admin/secret: the header is computed for the
\* method and the challenge, with the counter at count and the random
\* cnonce; kept with what it was computed from
DigestComputed(method, challenge, count, cnonce) ==
    /\ digestPrev' = digestLast
    /\ digestLast' =
          [username |-> "admin", password |-> "secret", method |-> method,
           uri |-> "/api/system/info", challenge |-> challenge, count |-> count,
           nc |-> Hex8(count), cnonce |-> cnonce,
           header |-> digestHeader(challenge, Hex8(count), cnonce),
           response |-> digestResponse("admin", "secret", method, "/api/system/info",
                                       challenge, Hex8(count), cnonce)]
    /\ UNCHANGED exceptDigest

\* what the computation d was made from: the username, the realm, the
\* password, the method, the URI, the nonce, nc, cnonce and the qop
DigestInputs(d) ==
    <<d.username, d.challenge.realm, d.password, d.method, d.uri, d.challenge.nonce,
      d.nc, d.cnonce, d.challenge.qop>>

\* no computation
NoDigest == [response |-> "none"]

DigestInit ==
    /\ digestLast = NoDigest
    /\ digestPrev = NoDigest

DigestNext ==
    \E method \in {"GET"} : \E challenge \in DigestChallenges :
        \E count \in Counts : \E cnonce \in Cnonces :
            DigestComputed(method, challenge, count, cnonce)

(***************************************************************************)
(* The Basic-only Api2NClient (src/src/api2nClient.ts) next to the         *)
(* Digest-capable one, each running the same operation against the same    *)
(* answer of a device that never answers 401                               *)
(***************************************************************************)
\* the bytes of a text in UTF-8: "a" is a character of one byte, "C3" and
\* "A9" are the two bytes of one character
Utf8Texts == {<< >>, <<"a">>, <<"C3", "A9">>, <<"a", "C3", "A9">>, <<"C3", "A9", "a">>}

\* the chunks the bytes arrive in when the body is cut after k bytes
Cut(bytes, k) ==
    SelectSeq(<<SubSeq(bytes, 1, k), SubSeq(bytes, k + 1, Len(bytes))>>,
              LAMBDA chunk : chunk # << >>)

\* the ways a body may arrive: whole, or in two chunks
Chunkings == UNION {{Cut(bytes, k) : k \in 0 .. Len(bytes)} : bytes \in Utf8Texts}

\* what the body is: for request() text that is not JSON, an envelope with
\* success false or true (the bytes are those of a string member of it, the
\* rest is ASCII); for getSnapshot() the bytes of an image
Shapes(kind) == IF kind = "request" THEN {"text", "failure", "success"} ELSE {"image"}

\* a request the device did not answer with a response
NoAnswer(type) == [type |-> type, status |-> 0, shape |-> "none", chunks |-> << >>]

\* what may become of one HTTP request to a device that never answers 401:
\* a response, a connection error, 10 s of silence
Answers(kind) ==
    {[type |-> "response", status |-> st, shape |-> sh, chunks |-> c] :
        st \in {200, 404, 500}, sh \in Shapes(kind), c \in Chunkings}
    \cup {NoAnswer("error"), NoAnswer("timeout")}

\* Buffer.toString(): the characters of the bytes as UTF-8; a byte that is
\* not part of a complete character gives U+FFFD
RECURSIVE toString(_)
toString(bytes) ==
    IF bytes = << >> THEN << >>
    ELSE IF Head(bytes) = "C3" /\ Len(bytes) >= 2 /\ bytes[2] = "A9"
    THEN <<"e-acute">> \o toString(SubSeq(bytes, 3, Len(bytes)))
    ELSE IF Head(bytes) \in {"C3", "A9"}
    THEN <<"U+FFFD">> \o toString(Tail(bytes))
    ELSE <<Head(bytes)>> \o toString(Tail(bytes))

\* Buffer.concat(chunks)
RECURSIVE concat(_)
concat(chunks) == IF chunks = << >> THEN << >> ELSE Head(chunks) \o concat(Tail(chunks))

\* api2nClient.ts, lines 83-87: data += chunk for every chunk, each chunk
\* turned into a string on its own
RECURSIVE Appended(_)
Appended(chunks) ==
    IF chunks = << >> THEN << >> ELSE toString(Head(chunks)) \o Appended(Tail(chunks))

\* substring(0, 200)
substring(data) ==
    SubSeq(data, 1, IF Len(data) > ExcerptLen THEN ExcerptLen ELSE Len(data))

\* an operation that throws an Error with the message (its constant part,
\* the status and the data in it)
Threw(message, status, data) ==
    [ok |-> FALSE, message |-> message, status |-> status, data |-> data]

\* an operation that returns the value made of the data
Returned(shape, data) == [ok |-> TRUE, message |-> shape, status |-> 200, data |-> data]

\* api2nClient.ts, lines 49-128: request() of the Basic-only client
BasicOnlyRequest(a) ==
    IF a.type = "error" THEN Threw("request error", 0, << >>)
    ELSE IF a.type = "timeout" THEN Threw("Request timeout", 0, << >>)
    ELSE LET data == Appended(a.chunks)
         IN  IF a.status = 401
             THEN Threw("Authentication failed - check username/password", 0, << >>)
             ELSE IF a.status # 200
             THEN Threw("HTTP error", a.status, substring(data))
             ELSE IF ~Parses(a.shape)
             THEN Threw("Failed to parse response", 0, << >>)
             ELSE Returned(a.shape, data)

\* api2nClient.ts, lines 281-338: getSnapshot() of the Basic-only client
BasicOnlyGetSnapshot(a) ==
    IF a.type = "error" THEN Threw("request error", 0, << >>)
    ELSE IF a.type = "timeout" THEN Threw("Snapshot request timeout", 0, << >>)
    ELSE IF a.status # 200
    THEN Threw("Failed to get snapshot: HTTP", a.status, << >>)
    ELSE Returned(a.shape, concat(a.chunks))

\* part_001, lines 153-191: what makeRequest settles its promise with; the
\* data of a JSON response is the string of all the bytes
makeRequest(a, isJsonResponse) ==
    IF a.type = "error" THEN Threw("request error", 0, << >>)
    ELSE IF a.type = "timeout" THEN Threw("Request timeout", 0, << >>)
    ELSE Returned(a.shape, IF isJsonResponse THEN toString(concat(a.chunks))
                           ELSE concat(a.chunks))

\* part_001, lines 230-279: request() of the Digest-capable client on an
\* answer that is not a 401 with a header (the block of lines 234-253 is
\* skipped)
DigestRequest(a) ==
    LET response == makeRequest(a, TRUE)
    IN  IF ~response.ok THEN response
        ELSE IF a.status = 401
        THEN Threw("Authentication failed - check username/password", 0, << >>)
        ELSE IF a.status # 200
        THEN Threw("HTTP error", a.status, substring(response.data))
        ELSE IF ~Parses(a.shape)
        THEN Threw("Failed to parse response", 0, << >>)
        ELSE Returned(a.shape, response.data)

\* part_001, lines 460-488: getSnapshot() of the Digest-capable client on
\* an answer that is not a 401 with a header
DigestGetSnapshot(a) ==
    LET response == makeRequest(a, FALSE)
    IN  IF ~response.ok THEN response
        ELSE IF a.status # 200
        THEN Threw("Failed to get snapshot: HTTP", a.status, << >>)
        ELSE Returned(a.shape, response.data)

\* one operation, request() or getSnapshot(), run by each of the two
\* clients against the same answer of the device: the Authorization header
\* each sends and what each returns or throws. The answer is not a 401, so
\* the Digest-capable client assigns nothing to its challenge and counter.
Operation(kind, a) ==
    /\ a \in Answers(kind)
    /\ pairLast' =
          [kind |-> kind, answer |-> a,
           basicOnly |-> [auth |-> BasicAuth,
                          outcome |-> IF kind = "request" THEN BasicOnlyRequest(a)
                                      ELSE BasicOnlyGetSnapshot(a)],
           digest |-> [auth |-> IF FirstScheme = "Digest"
                                THEN generateDigestAuth(lastDigestChallenge, nonceCount + 1)
                                ELSE BasicAuth,
                       outcome |-> IF kind = "request" THEN DigestRequest(a)
                                   ELSE DigestGetSnapshot(a)]]
    /\ UNCHANGED exceptPair

\* no operation yet
NoOperation == [kind |-> "none"]

PairInit == pairLast = NoOperation

PairNext ==
    \E kind \in {"request", "snapshot"} : \E a \in Answers(kind) : Operation(kind, a)

Init ==
    /\ PollInit /\ StreamInit /\ AuthInit /\ SwitchInit /\ NetInit /\ EventInit
    /\ LogInit /\ DigestInit /\ PairInit

\* the event subscription of one accessory
Next == PollNext

Spec == Init /\ [][Next]_vars

\* the stream sessions of one camera
StreamSpec == Init /\ [][StreamNext]_vars

\* the calls of one client
AuthSpec == Init /\ [][AuthNext]_vars

\* the setSwitchState calls of one client
SwitchSpec == Init /\ [][SwitchNext]_vars

\* the Digest headers one client computes
DigestSpec == Init /\ [][DigestNext]_vars

\* the operations of the two clients against a device that never answers 401
PairSpec == Init /\ [][PairNext]_vars

\* the outputs of one ffmpeg
LogSpec == Init /\ [][LogNext]_vars

\* the events one accessory handles
EventSpec == Init /\ [][EventNext]_vars

\* the requests of one client: time goes on for an open socket (something
\* happens on it, or 10 s pass without), and a callback that is due runs
NetSpec ==
    /\ Init
    /\ [][NetNext]_vars
    /\ \A r \in 1 .. MaxRequests :
          /\ WF_vars(SocketEvent(r))
          /\ WF_vars(SocketTimeout(r))
          /\ WF_vars(DestroyedError(r))

(***************************************************************************)
(* The event subscription left to itself: the caller neither destroys the  *)
(* accessory nor starts polling again. The timer keeps firing (setInterval)*)
(* and every request in flight is settled in the end: the device answers   *)
(* it in full or it fails (makeRequest does not settle a request whose     *)
(* connection is lost in the middle of the response; NetSpec has that).    *)
(***************************************************************************)
\* the request of invocation t is settled
Settled(t) ==
    \/ \E code \in {0, SubscriptionExpiredCode, OtherErrorCode} :
          PullAnswered(t, code)
    \/ PullThrows(t)
    \/ ResubscribeStored(t)
    \/ ResubscribeThrows(t)
    \/ CatchSubscribeStored(t)
    \/ CatchSubscribeThrows(t)

LiveNext ==
    \/ SystemInfoAnswered
    \/ SystemInfoThrows
    \/ InitializeRetry
    \/ StartSubscribeStored
    \/ StartSubscribeThrows
    \/ Tick
    \/ \E t \in BagToSet(ticks) : Settled(t)
    \/ \E id \in 1 .. MaxSub : Expire(id)

LiveSpec ==
    /\ Init
    /\ [][LiveNext]_vars
    /\ WF_vars(Tick)
    /\ WF_vars(\E t \in BagToSet(ticks) : Settled(t))

\* the same, with an initialization that goes on as well: the getSystemInfo
\* request is settled in the end and the retry timer fires
InitSpec ==
    /\ LiveSpec
    /\ WF_vars(SystemInfoAnswered \/ SystemInfoThrows)
    /\ WF_vars(InitializeRetry)

\* the same, and the subscribe request of startEventPolling is settled in
\* the end as well: the device answers it or it fails
StartSpec ==
    /\ InitSpec
    /\ WF_vars(StartSubscribeStored \/ StartSubscribeThrows)

(***************************************************************************)
(* What a step did to the pollEvents invocations                           *)
(***************************************************************************)
\* every invocation there is a record of
Invocations == BagToSet(ticks) \cup {lastDone}

\* the invocations a step puts in flight or moves on, in their new state
Added == {t \in BagToSet(ticks') : CopiesIn(t, ticks') > CopiesIn(t, ticks)}

\* the invocations a step takes up, in their old state
Removed == {t \in BagToSet(ticks) : CopiesIn(t, ticks) > CopiesIn(t, ticks')}

\* the step is a timer tick: one more invocation is in flight
Started == BagCardinality(ticks') > BagCardinality(ticks)

\* the step settles a pull request (answer or failure)
PullSettled == \E t \in Removed : t.pc = "pull"

\* the invocation the step worked on, as the step leaves it
Outcome == IF Added # {} THEN CHOOSE t \in Added : TRUE ELSE lastDone'

\* a pull failed, and not by the expiry of the subscription
NonExpiryErrors == {"NotSubscribed", "PullFailed", "RequestFailed"}

(***************************************************************************)
(* C3: once destroy() has been called, no pull request is sent any more.   *)
(* The code does not guarantee it: destroy() clears only the timer whose   *)
(* handle is stored, and startEventPolling() stores the handle only after  *)
(* its subscribe has been answered.                                        *)
(***************************************************************************)
C3_NoPullAfterDestroy ==
    [][destroyed => \A t \in Added : t.pc # "pull"]_vars

(***************************************************************************)
(* C9: pullEvents called without a subscription id throws "Not subscribed" *)
(* and sends nothing; every pull request on the wire carries an id, the    *)
(* one that was current when it was sent.                                  *)
(***************************************************************************)
C9_PullNeedsSubscription ==
    /\ [](\A t \in Invocations :
             /\ t.pc = "pull" => t.id # Null
             /\ t.err = "NotSubscribed" => ~t.pulled)
    /\ [][Started =>
             \A t \in Added :
                 IF subscriptionId = Null
                 THEN t.err = "NotSubscribed" /\ ~t.pulled /\ t.pc # "pull"
                 ELSE t.pc = "pull" /\ t.pulled /\ t.id = subscriptionId]_vars

\* a pollEvents invocation found no subscription id and sent no pull
C9_Witness ==
    \E t \in Invocations : t.err = "NotSubscribed" /\ ~t.pulled /\ t.subs = 1

C8_FailedPullKeepsPolling ==
    /\ [](\A t \in Invocations : t.err \in NonExpiryErrors => t.subs <= 1)
    /\ [][/\ (eventPollInterval # Null /\ ~destroyed') =>
                /\ eventPollInterval' = eventPollInterval
                /\ eventPollInterval \in timers'
          /\ ((Started \/ PullSettled) /\ Outcome.err \in NonExpiryErrors) =>
                /\ timers' = timers
                /\ IF subscriptionId = Null
                   THEN Outcome.pc = "resub" /\ Outcome.subs = 1
                   ELSE Outcome.pc = "done" /\ Outcome.subs = 0
          /\ \A t \in Removed :
                (t.pc = "resub" /\ t.err \in NonExpiryErrors) =>
                    /\ Added = {}
                    /\ lastDone' = [t EXCEPT !.pc = "done"]
                    /\ timers' = timers]_vars

\* a pull failed by a request error while the client had lost its
\* subscription; the invocation made its one subscribe attempt and
\* returned, and the timer is still there
C8_Witness ==
    /\ lastDone.err \in {"PullFailed", "RequestFailed"}
    /\ lastDone.subs = 1
    /\ eventPollInterval # Null
    /\ eventPollInterval \in timers

(***************************************************************************)
(* C10: a call of startEventPolling while the timer exists does nothing,   *)
(* and there is never more than one event polling timer, whatever the      *)
(* sequence of start calls.                                                *)
(***************************************************************************)
C10_StartIsIdempotent ==
    /\ [](/\ Cardinality(timers) <= 1
          /\ eventPollInterval # Null => timers = {eventPollInterval})
    /\ [][(eventPollInterval # Null /\ initPc = "done" /\ ~destroyed') =>
             /\ initPc' = "done"
             /\ timers' = timers
             /\ eventPollInterval' = eventPollInterval]_vars

\* startEventPolling was called while the timer existed
C10_Witness ==
    /\ lastStart = "noop"
    /\ eventPollInterval # Null
    /\ Cardinality(timers) = 1

(***************************************************************************)
(* C7: expiry heals by itself. Whenever the polling timer runs and the     *)
(* client holds no subscription the device knows (the device expired it,   *)
(* or a resubscribe failed), the client is in the end subscribed again     *)
(* with an id the device knows, with no call from outside; and every pull  *)
(* request carries the id that is current when it is sent.                 *)
(***************************************************************************)
C7_ExpiryHeals ==
    /\ [][Started => \A t \in Added : t.pc = "pull" => t.id = subscriptionId]_vars
    /\ (timers # {} /\ subscriptionId \notin devSubs) ~> (subscriptionId \in devSubs)

\* the device expired a subscription, a pull met the expiry, and the client
\* is subscribed again with an id the device knows, the timer still running
C7_Witness ==
    /\ expiries > 0
    /\ lastDone.code = SubscriptionExpiredCode
    /\ subscriptionId \in devSubs
    /\ timers # {}

(***************************************************************************)
(* C4: once stopStream(id) has returned, no process spawned for id is      *)
(* running and id has no active record. The code does not guarantee it: a  *)
(* second startStream for the id overwrites the active record, and the     *)
(* process of the first one is never killed.                               *)
(***************************************************************************)
C4_StopLeavesNoProcess ==
    streamLast.op = "stop" =>
        /\ RunningFor(streamLast.id) = {}
        /\ activeSessions[streamLast.id] = Null

(***************************************************************************)
(* C5: a session id never has a pending and an active record at the same   *)
(* time. The code does not guarantee it: prepareStream stores the pending  *)
(* record without looking at the active sessions.                          *)
(***************************************************************************)
C5_OneRecordPerSession ==
    \A id \in SessionIds : ~(id \in pendingSessions /\ activeSessions[id] # Null)

(***************************************************************************)
(* C1: a request() on a client without a cached challenge sends its first  *)
(* attempt with a Basic header; when a first attempt is answered 401 with  *)
(* a valid Digest challenge, the challenge is cached and the call goes on  *)
(* to a second attempt with a Digest header for that challenge; when the   *)
(* second attempt is answered 401 the call fails with an authentication    *)
(* error and makes no further attempt; no call makes more than two.        *)
(***************************************************************************)
C1_BasicThenOneDigestRetry ==
    [][LET s == lastStep'
       IN  /\ \A c \in BagToSet(calls') : c.attempts <= 2
           /\ (s.kind = "request" /\ s.op = "start"
                                  /\ lastDigestChallenge = NoChallenge) =>
                /\ s.auth = BasicAuth
                /\ CopiesIn([kind |-> "request", attempts |-> 1, scheme |-> "Basic"], calls')
                     = CopiesIn([kind |-> "request", attempts |-> 1, scheme |-> "Basic"], calls) + 1
           /\ (s.kind = "request" /\ s.attempts = 1 /\ s.status = 401
                                  /\ parseDigestChallenge(s.hdr) # NoChallenge) =>
                /\ s.op = "retry"
                /\ lastDigestChallenge' = parseDigestChallenge(s.hdr)
                /\ s.auth.scheme = "Digest"
                /\ s.auth.nonce = s.hdr.nonce
                /\ CopiesIn([kind |-> "request", attempts |-> 2, scheme |-> "Digest"], calls')
                     = CopiesIn([kind |-> "request", attempts |-> 2, scheme |-> "Digest"], calls) + 1
                /\ BagCardinality(calls') = BagCardinality(calls)
           /\ (s.kind = "request" /\ s.attempts = 2 /\ s.status = 401) =>
                /\ s.op = "throw"
                /\ s.result = "AuthFailed"
                /\ s.auth = NoAuth
                /\ BagCardinality(calls') = BagCardinality(calls) - 1
      ]_vars

\* the only Digest header computed so far is the one of a retry, and a
\* request() has thrown the authentication error on its second 401
C1_Witness ==
    /\ lastStep.kind = "request"
    /\ lastStep.attempts = 2
    /\ lastStep.status = 401
    /\ lastStep.result = "AuthFailed"
    /\ \E n \in 1 .. MaxNonce : issued = {<<n, 1>>}

(***************************************************************************)
(* C2: no two Digest headers are computed for the same server nonce with   *)
(* the same nonce-counter value. The code does not guarantee it: every     *)
(* challenge that is cached resets the counter to 0, also when its nonce   *)
(* is the one the counter was counting for.                                *)
(***************************************************************************)
C2_NoCounterReuse ==
    [][lastStep'.auth.scheme = "Digest" =>
            <<lastStep'.auth.nonce, lastStep'.auth.nc>> \notin issued]_vars

(***************************************************************************)
(* C11: a tick of the event polling timer is not held back by the pull of  *)
(* an earlier tick: as long as the timer exists a new pollEvents           *)
(* invocation can start, also while earlier ones have not returned (up to  *)
(* the MaxInFlight invocations the model follows at once).                 *)
(***************************************************************************)
C11_TickNotHeldBack ==
    (timers # {} /\ BagCardinality(ticks) < MaxInFlight) => ENABLED Tick

\* a tick has fired while the pull of an earlier tick was in flight: two
\* pulls are in flight at once
C11_Witness ==
    /\ timers # {}
    /\ \E t \in BagToSet(ticks) : t.pc = "pull" /\ CopiesIn(t, ticks) >= 2

(***************************************************************************)
(* C12: destroy() clears the event polling timer that exists and starts a  *)
(* best-effort unsubscribe: whether the unsubscribe request succeeds or    *)
(* fails, unsubscribeFromEvents returns (nothing is raised) and the local  *)
(* subscription id is absent when it does.                                 *)
(***************************************************************************)
C12_DestroyUnsubscribesBestEffort ==
    /\ [](unsubResult \in {"none", "skipped", "unsubscribed", "swallowed"})
    /\ [][/\ (~destroyed /\ destroyed') =>
                /\ timers' = {}
                /\ eventPollInterval' = Null
                /\ unsubPc' = subscriptionId
          /\ (unsubResult = "none" /\ unsubResult' # "none") =>
                /\ unsubResult' # "raised"
                /\ subscriptionId' = Null]_vars

\* destroy() has cleared a running timer and its unsubscribe request has
\* failed
C12_Witness ==
    /\ destroyed
    /\ timerSeq > 0
    /\ timers = {}
    /\ unsubResult = "swallowed"
    /\ subscriptionId = Null

(***************************************************************************)
(* Steps of the stream sessions, for the properties below                  *)
(***************************************************************************)
\* this step is the stream operation op
StreamStep(op) == streamLast' # streamLast /\ streamLast'.op = op

\* the step leaves the records and the processes of the sessions other
\* than id as they are
OthersUntouched(id) ==
    /\ pendingSessions' \ {id} = pendingSessions \ {id}
    /\ \A other \in SessionIds \ {id} : activeSessions'[other] = activeSessions[other]
    /\ \A p \in DOMAIN procs : procs[p].session # id => procs'[p] = procs[p]

(***************************************************************************)
(* C13: a start for a session id without a pending record is an error: it  *)
(* spawns no process and creates no active record; a start for an id with  *)
(* a pending record consumes that record, spawns exactly one process and   *)
(* makes it the one active record of the id.                               *)
(***************************************************************************)
C13_StartNeedsPending ==
    [][StreamStep("start") =>
        LET id == streamLast'.id
        IN  IF id \notin pendingSessions
            THEN /\ ~streamLast'.ok
                 /\ procs' = procs
                 /\ activeSessions' = activeSessions
                 /\ pendingSessions' = pendingSessions
            ELSE /\ streamLast'.ok
                 /\ pendingSessions' = pendingSessions \ {id}
                 /\ Len(procs') = Len(procs) + 1
                 /\ \A p \in DOMAIN procs : procs'[p] = procs[p]
                 /\ procs'[Len(procs')].session = id
                 /\ activeSessions'[id] = Len(procs')
      ]_vars

\* a start without a pending record has been refused after a start with
\* one has spawned a process
C13_Witness ==
    /\ streamLast.op = "start"
    /\ ~streamLast.ok
    /\ activeSessions[streamLast.id] # Null
    /\ Len(procs) = 1

(***************************************************************************)
(* C14: stopStream is idempotent: a stop never raises, and a stop of an id *)
(* that was stopped by the stream operation before it, or of an id that    *)
(* has no record, changes neither the pending nor the active table.        *)
(***************************************************************************)
C14_StopIsIdempotent ==
    /\ streamLast.op = "stop" => streamLast.ok
    /\ \A id \in SessionIds :
         ( \/ streamLast = [op |-> "stop", id |-> id, ok |-> TRUE]
           \/ (id \notin pendingSessions /\ activeSessions[id] = Null) ) =>
            ~ENABLED ( /\ StopStream(id)
                       /\ <<pendingSessions, activeSessions>>'
                            # <<pendingSessions, activeSessions>> )

\* a stop has killed the process of its id, and it is not the only process
\* spawned so far
C14_Witness ==
    /\ streamLast.op = "stop"
    /\ \E p \in DOMAIN procs : /\ procs[p].session = streamLast.id
                               /\ procs[p].state = "killed"
    /\ Len(procs) >= 2

(***************************************************************************)
(* C15: a stopStream that follows the prepareStream of the same id, with   *)
(* no stream operation in between, removes the pending record and sends no *)
(* kill signal to any process. The code does not guarantee it: the id may  *)
(* still have the active record of an earlier start (see C5), and the stop *)
(* kills its process.                                                      *)
(***************************************************************************)
C15_StopAfterPrepareKillsNothing ==
    [][\A id \in SessionIds :
         ( /\ streamLast = [op |-> "prepare", id |-> id, ok |-> TRUE]
           /\ streamLast' = [op |-> "stop", id |-> id, ok |-> TRUE]
    /\ streamOut' = Acknowledged ) =>
            /\ id \notin pendingSessions'
            /\ procs' = procs
      ]_vars

(***************************************************************************)
(* C16: when the process of a session exits on its own, or has failed to   *)
(* spawn, nothing is retried: a process is only ever spawned by a start    *)
(* that finds a pending record, and the active record of a session changes *)
(* only in a start or a stop of that session.                              *)
(***************************************************************************)
C16_NoRetryAfterExit ==
    [][/\ Len(procs') > Len(procs) =>
            /\ StreamStep("start")
            /\ streamLast'.id \in pendingSessions
            /\ Len(procs') = Len(procs) + 1
       /\ \A id \in SessionIds :
            activeSessions'[id] # activeSessions[id] =>
                /\ StreamStep("start") \/ StreamStep("stop")
                /\ streamLast'.id = id
       /\ \A p \in DOMAIN procs :
            (procs[p].state = "running" /\ procs'[p].state = "exited") =>
                /\ Len(procs') = Len(procs)
                /\ activeSessions' = activeSessions
                /\ pendingSessions' = pendingSessions
      ]_vars

\* the process of one active session has exited and the one of another has
\* failed to spawn, and both sessions still have their active records
C16_Witness ==
    \E a, b \in SessionIds :
        /\ activeSessions[a] # Null /\ activeSessions[b] # Null
        /\ procs[activeSessions[a]].state = "exited"
        /\ procs[activeSessions[b]].state = "failed"
        /\ Len(procs) = 2

(***************************************************************************)
(* C17: a prepare, start or stop for one session id leaves the pending     *)
(* record, the active record and the processes of every other session id   *)
(* as they are.                                                            *)
(***************************************************************************)
C17_OtherSessionsUntouched ==
    [][\/ \E p \in DOMAIN procs : procs[p].state = "running" /\ procs'[p].state = "exited"
       \/ OthersUntouched(streamLast'.id)]_vars

\* one session has been stopped and its process killed while another one
\* has a pending record and an active record with a running process
C17_Witness ==
    \E a, b \in SessionIds :
        /\ a # b
        /\ streamLast = [op |-> "stop", id |-> a, ok |-> TRUE]
        /\ b \in pendingSessions
        /\ activeSessions[b] # Null
        /\ procs[activeSessions[b]].state = "running"
        /\ \E p \in DOMAIN procs : procs[p].session = a /\ procs[p].state = "killed"

(***************************************************************************)
(* C18: when a challenge is cached, the first attempt of a call carries a  *)
(* Digest header computed for that challenge with the next counter value   *)
(* (never a Basic one), and when the device answers that attempt 200 the   *)
(* call returns without a further attempt.                                 *)
(***************************************************************************)
C18_CachedChallengeGivesDigestFirst ==
    [][LET s == lastStep'
       IN  /\ (s.op = "start" /\ lastDigestChallenge # NoChallenge) =>
                /\ s.sent = "Digest"
                /\ s.auth = generateDigestAuth(lastDigestChallenge, nonceCount + 1)
                /\ nonceCount' = nonceCount + 1
                /\ lastDigestChallenge' = lastDigestChallenge
           /\ (s.attempts = 1 /\ s.sent = "Digest" /\ s.status = 200
                              /\ (s.kind = "request" => Parses(s.body))) =>
                /\ s.op = "return"
                /\ s.result = "ok"
                /\ s.auth = NoAuth
                /\ BagCardinality(calls') = BagCardinality(calls) - 1
                /\ nonceCount' = nonceCount
      ]_vars

\* a request() that sent a Digest header on its first attempt has returned
\* after that one attempt
C18_Witness ==
    /\ lastStep.op = "return"
    /\ lastStep.kind = "request"
    /\ lastStep.sent = "Digest"
    /\ lastStep.attempts = 1
    /\ lastStep.status = 200
    /\ lastDigestChallenge # NoChallenge

(***************************************************************************)
(* C19: getSnapshot authenticates as request() does: its first attempt     *)
(* carries a Basic header when no challenge is cached and a Digest header  *)
(* when one is; when the first attempt is answered 401 with a valid        *)
(* challenge it caches the challenge, restarts the nonce counter and makes *)
(* one second attempt with a Digest header; it throws when the second      *)
(* attempt is not answered 200, and never makes a third.                   *)
(***************************************************************************)
C19_SnapshotAuthenticatesAsRequest ==
    [][LET s == lastStep'
           snap == [kind |-> "snapshot", attempts |-> 2, scheme |-> "Digest"]
       IN  s.kind = "snapshot" =>
           /\ \A c \in BagToSet(calls') : c.attempts <= 2
           /\ s.op = "start" =>
                IF lastDigestChallenge = NoChallenge
                THEN s.auth = BasicAuth /\ nonceCount' = nonceCount
                ELSE /\ s.auth = generateDigestAuth(lastDigestChallenge, nonceCount + 1)
                     /\ nonceCount' = nonceCount + 1
           /\ (s.attempts = 1 /\ s.status = 401
                              /\ parseDigestChallenge(s.hdr) # NoChallenge) =>
                /\ s.op = "retry"
                /\ lastDigestChallenge' = parseDigestChallenge(s.hdr)
                /\ nonceCount' = 1
                /\ s.auth = generateDigestAuth(parseDigestChallenge(s.hdr), 1)
                /\ CopiesIn(snap, calls') = CopiesIn(snap, calls) + 1
                /\ BagCardinality(calls') = BagCardinality(calls)
           /\ (s.attempts = 2 /\ s.status # 200) =>
                /\ s.op = "throw"
                /\ s.auth = NoAuth
                /\ BagCardinality(calls') = BagCardinality(calls) - 1
      ]_vars

\* a getSnapshot has retried with a Digest header and has thrown on the
\* second 401
C19_Witness ==
    /\ lastStep.kind = "snapshot"
    /\ lastStep.op = "throw"
    /\ lastStep.attempts = 2
    /\ lastStep.sent = "Digest"
    /\ lastStep.status = 401
    /\ lastStep.result = "SnapshotFailed"

(***************************************************************************)
(* C20: a setSwitchState answered {success: true} completes without an     *)
(* error; one answered {success: false, error: {code: 5, message: "busy"}} *)
(* throws an error that carries the code 5. The code does not do the       *)
(* latter: the Error it throws is made of the message alone.               *)
(***************************************************************************)
C20_SwitchErrorCarriesCode ==
    switchLast.answered =>
        /\ switchLast.envelope.success => ~switchLast.error.thrown
        /\ (~switchLast.envelope.success
                /\ switchLast.envelope.error.code = OtherErrorCode) =>
              /\ switchLast.error.thrown
              /\ switchLast.error.code = OtherErrorCode


(***************************************************************************)
(* C21: when an attempt of a request() is answered with a status that is   *)
(* neither 200 nor 401, the call throws an HTTP error that carries that    *)
(* status and an excerpt of the body of at most ExcerptLen characters (the *)
(* whole body when it is not longer), and the call makes no other attempt. *)
(***************************************************************************)
C21_OtherStatusIsHttpError ==
    [][LET s == lastStep'
       IN  (s.kind = "request" /\ s.op \in {"retry", "return", "throw"}
                               /\ s.status \notin {0, 200, 401}) =>
                /\ s.op = "throw"
                /\ s.result = "HttpError"
                /\ s.detail.status = s.status
                /\ s.detail.excerpt <= ExcerptLen
                /\ s.detail.excerpt = IF s.len <= ExcerptLen THEN s.len ELSE ExcerptLen
                /\ BagCardinality(calls') = BagCardinality(calls) - 1
                /\ UNCHANGED <<lastDigestChallenge, nonceCount, issued>>
      ]_vars

\* a request() has thrown the HTTP error on a 500 whose body is longer than
\* the excerpt
C21_Witness ==
    /\ lastStep.kind = "request"
    /\ lastStep.status = 500
    /\ lastStep.len > ExcerptLen
    /\ lastStep.result = "HttpError"
    /\ lastStep.detail.excerpt = ExcerptLen


(***************************************************************************)
(* C22: when an attempt of a request() is answered 200, an envelope with   *)
(* success false is returned to the caller as a value, and a body that is  *)
(* not an envelope makes the call throw the parse error. The code does not *)
(* do the latter for every such body: a JSON value that has no success     *)
(* member, such as {}, is returned as if it were an envelope.              *)
(***************************************************************************)
C22_EnvelopeReturnedElseParseError ==
    [][LET s == lastStep'
       IN  (s.kind = "request" /\ s.op \in {"retry", "return", "throw"}
                               /\ s.status = 200) =>
                /\ s.body = "failure" =>
                      /\ s.op = "return"
                      /\ s.result = "ok"
                      /\ s.detail.value = "failure"
                /\ s.body \notin {"failure", "success"} =>
                      /\ s.op = "throw"
                      /\ s.result = "ParseFailed"
      ]_vars


(***************************************************************************)
(* C23: every makeRequest() terminates: its promise is pending only for a  *)
(* while and is then fulfilled with the response or rejected (with the     *)
(* timeout error when the timeout callback ran, which closes the socket),  *)
(* and a settled promise never changes again. The code does not guarantee  *)
(* the first: when the connection is lost between the headers and the end  *)
(* of the body, no handler of makeRequest runs and the promise stays       *)
(* pending.                                                                *)
(***************************************************************************)
C23_EveryRequestSettlesOnce ==
    /\ \A r \in 1 .. MaxRequests :
          (r \in DOMAIN requests /\ requests[r].promise = "pending")
             ~> (r \in DOMAIN requests /\ requests[r].promise # "pending")
    /\ [](\A r \in DOMAIN requests :
            requests[r].reason = "timeout" =>
                requests[r].promise = "rejected" /\ requests[r].socket # "open")
    /\ [][\A r \in DOMAIN requests :
            requests[r].promise \in {"fulfilled", "rejected"} =>
                /\ requests'[r].promise = requests[r].promise
                /\ requests'[r].reason = requests[r].reason]_vars


C25_DoorbellKeyTriggers ==
    [][LET e == eventLast'.event
           button == IF context \in {NoVal, Val("string", "")} THEN "1" ELSE context.text
       IN  e.event = "KeyPressed" =>
              IF e.key.text = button
              THEN /\ eventLast'.action = "doorbell"
                   /\ rings' = rings + 1
              ELSE /\ eventLast'.action = "none"
                   /\ rings' = rings
                   /\ lockCurrentState' = lockCurrentState
      ]_vars

\* without a configured button, the key "1" has rung the doorbell
C25_Witness ==
    /\ context = NoVal
    /\ eventLast.event.event = "KeyPressed"
    /\ eventLast.event.key = Val("string", "1")
    /\ eventLast.action = "doorbell"
    /\ rings > 0


(***************************************************************************)
(* C26: after a prepareStream the session id has a pending record, and the *)
(* response given to the callback has the video port and key material of   *)
(* the request with the video SSRC generated for the record, and an audio  *)
(* section exactly when the request has one: then with the audio port and  *)
(* key material of the request and the generated audio SSRC.               *)
(***************************************************************************)
C26_PrepareStoresAndAnswers ==
    streamLast.op = "prepare" =>
        LET req == streamOut.request
            res == streamOut.response
        IN  /\ streamLast.id \in pendingSessions
            /\ streamOut.prepared
            /\ streamOut.callbacks = 1
            /\ ~streamOut.error
            /\ res.video.port = req.video.port
            /\ res.video.key = req.video.key
            /\ res.video.ssrc = streamOut.info.videoSSRC
            /\ res.video.ssrc \in Ssrcs
            /\ (res.audio # NoSection) <=> (req.audio # NoSection)
            /\ req.audio # NoSection =>
                  /\ res.audio.port = req.audio.port
                  /\ res.audio.key = req.audio.key
                  /\ res.audio.ssrc = streamOut.info.audioSSRC
                  /\ res.audio.ssrc \in Ssrcs

\* a request with audio has been answered with an audio section whose SSRC is
\* not the video one
C26_Witness ==
    /\ streamLast.op = "prepare"
    /\ streamLast.id \in pendingSessions
    /\ streamOut.request.audio # NoSection
    /\ streamOut.response.video.port = 5002
    /\ streamOut.response.audio.port = 5004
    /\ streamOut.response.audio.ssrc # streamOut.response.video.ssrc


(***************************************************************************)
(* C27: an output of ffmpeg is logged at the level of a warning or above   *)
(* when it has the word error in it, in whatever letter case, and at debug *)
(* level otherwise. The code does not do the first for every letter case:  *)
(* it looks for "error" and "Error" only.                                  *)
(***************************************************************************)
C27_ErrorInAnyCaseEscalated ==
    stderrLast.level # "none" =>
        IF \E i \in DOMAIN stderrLast.message : LowerCase(stderrLast.message[i]) = "error"
        THEN stderrLast.level \in {"warn", "error"}
        ELSE stderrLast.level = "debug"


C30_CounterRestartsAndCounts ==
    [][LET s == lastStep'
       IN  /\ lastDigestChallenge' # lastDigestChallenge =>
                /\ s.op = "retry"
                /\ lastDigestChallenge' = parseDigestChallenge(s.hdr)
           /\ s.op = "retry" =>
                /\ lastDigestChallenge' = parseDigestChallenge(s.hdr)
                /\ nonceCount' = 1
                /\ s.auth.scheme = "Digest"
                /\ s.auth.nonce = lastDigestChallenge'.nonce
                /\ s.auth.nc = 1
           /\ (s.op = "start" /\ s.auth.scheme = "Digest") =>
                /\ lastDigestChallenge' = lastDigestChallenge
                /\ nonceCount' = nonceCount + 1
                /\ s.auth.nonce = lastDigestChallenge.nonce
                /\ s.auth.nc = nonceCount + 1
           /\ s.auth.scheme # "Digest" => nonceCount' = nonceCount
      ]_vars

\* the second header under a cached challenge has been computed, with nc = 2,
\* after the first, of the retry that cached it, with nc = 1
C30_Witness ==
    /\ lastStep.op = "start"
    /\ lastStep.auth.scheme = "Digest"
    /\ lastStep.auth.nc = 2
    /\ nonceCount = 2
    /\ <<lastStep.auth.nonce, 1>> \in issued


(***************************************************************************)
(* C31: the client holds one cached challenge at most (one field), and the *)
(* cache never expires on its own: once a challenge is cached the cache is *)
(* never empty again, and it changes only in a step in which a call is     *)
(* answered 401 with a valid challenge, which becomes the cached one.      *)
(***************************************************************************)
C31_CacheNeverEmptied ==
    [][LET s == lastStep'
       IN  /\ lastDigestChallenge # NoChallenge => lastDigestChallenge' # NoChallenge
           /\ lastDigestChallenge' # lastDigestChallenge =>
                /\ s.op = "retry"
                /\ s.status = 401
                /\ parseDigestChallenge(s.hdr) # NoChallenge
                /\ lastDigestChallenge' = parseDigestChallenge(s.hdr)
      ]_vars

\* the device has answered 401 without a challenge to a Digest header made
\* for the cached challenge; the call has thrown and the challenge is still
\* cached
C31_Witness ==
    /\ lastStep.op = "throw"
    /\ lastStep.sent = "Digest"
    /\ lastStep.attempts = 1
    /\ lastStep.status = 401
    /\ lastStep.hdr = NoHeader
    /\ lastDigestChallenge # NoChallenge


(***************************************************************************)
(* C32: when the first attempt of a request() carried a Digest header for  *)
(* the cached challenge and is answered 401 with a valid challenge (a      *)
(* stale nonce, say), the same step caches the new challenge, restarts the *)
(* nonce counter and sends the one retry with a Digest header for the new  *)
(* nonce with nc = 1, and nothing is thrown; when the device answers the   *)
(* retry 200 with a JSON value the call returns it. No call retries twice. *)
(***************************************************************************)
C32_RejectedChallengeIsReplaced ==
    [][LET s == lastStep'
       IN  /\ \A c \in BagToSet(calls') : c.attempts <= 2
           /\ (s.kind = "request" /\ s.attempts = 1 /\ s.sent = "Digest"
                   /\ s.status = 401 /\ parseDigestChallenge(s.hdr) # NoChallenge) =>
                /\ s.op = "retry"
                /\ s.result = "none"
                /\ lastDigestChallenge' = parseDigestChallenge(s.hdr)
                /\ nonceCount' = 1
                /\ s.auth = generateDigestAuth(parseDigestChallenge(s.hdr), 1)
                /\ BagCardinality(calls') = BagCardinality(calls)
                /\ \E c \in BagToSet(calls') :
                      /\ c.kind = "request" /\ c.attempts = 2
                      /\ CopiesIn(c, calls') = CopiesIn(c, calls) + 1
           /\ (s.kind = "request" /\ s.attempts = 2 /\ s.status = 200
                   /\ Parses(s.body)) =>
                /\ s.op = "return"
                /\ s.result = "ok"
                /\ s.detail.value = s.body
      ]_vars

\* a Digest header for the cached challenge of nonce 1 has been answered 401
\* with a challenge of nonce 2, which is now the cached one, and the retry
\* is in flight with nc = 1
C32_Witness ==
    /\ lastStep.op = "retry"
    /\ lastStep.kind = "request"
    /\ lastStep.sent = "Digest"
    /\ lastStep.hdr.nonce = 2
    /\ lastDigestChallenge.nonce = 2
    /\ lastStep.auth = [scheme |-> "Digest", nonce |-> 2, nc |-> 1]
    /\ nonceCount = 1
    /\ <<1, 1>> \in issued


(***************************************************************************)
(* C33: when the challenge has a qop, the response of the Digest header is *)
(* the hash of HA1:nonce:nc:cnonce:qop:HA2 with the qop value of the       *)
(* challenge and the counter as eight zero-padded hex digits, and the      *)
(* header has qop, nc and cnonce; when the challenge has no qop, the       *)
(* response is the hash of HA1:nonce:HA2 and the header has none of the    *)
(* three. The code does not do the first for every qop: it always puts     *)
(* "auth" into the hash and into the header.                               *)
(***************************************************************************)
C33_ResponseFollowsQop ==
    digestLast # NoDigest =>
        LET d == digestLast
            name == d.response.hash
            ha1 == Hash(name, <<d.username, d.challenge.realm, d.password>>)
            ha2 == Hash(name, <<d.method, d.uri>>)
        IN  /\ Len(d.nc) = 8
            /\ \A i \in 1 .. 8 : d.nc[i] \in 0 .. 15
            /\ d.count = d.nc[1] * 16 ^ 7 + d.nc[2] * 16 ^ 6 + d.nc[3] * 16 ^ 5
                           + d.nc[4] * 16 ^ 4 + d.nc[5] * 16 ^ 3 + d.nc[6] * 16 ^ 2
                           + d.nc[7] * 16 + d.nc[8]
            /\ IF d.challenge.qop # Absent
               THEN /\ d.response = Hash(name, <<ha1, d.challenge.nonce, d.nc, d.cnonce,
                                                  d.challenge.qop, ha2>>)
                    /\ d.header.qop = d.challenge.qop
                    /\ d.header.nc = d.nc
                    /\ d.header.cnonce = d.cnonce
               ELSE /\ d.response = Hash(name, <<ha1, d.challenge.nonce, ha2>>)
                    /\ d.header.qop = Absent
                    /\ d.header.nc = NoNc
                    /\ d.header.cnonce = Absent

(***************************************************************************)
(* C34: HA1, HA2 and the response are made with MD5 unless the challenge   *)
(* names another algorithm, and then with the algorithm it names, which is *)
(* the one the header announces. The code does not do the latter: it       *)
(* announces the named algorithm and computes all three with MD5.          *)
(***************************************************************************)
C34_HashIsTheNamedAlgorithm ==
    digestLast # NoDigest =>
        LET d == digestLast
            named == IF d.challenge.algorithm \in {Absent, "MD5"} THEN "md5" ELSE "sha256"
            parts == d.response.of
        IN  /\ d.response.hash = named
            /\ parts[1].hash = named
            /\ parts[Len(parts)].hash = named
            /\ d.challenge.algorithm \notin {Absent, "MD5"} =>
                  d.header.algorithm = d.challenge.algorithm


(***************************************************************************)
(* C35: once destroy() has been called, nothing the accessory still has in *)
(* flight (the resubscribe of a poll tick, a start of polling, a retry of  *)
(* the initialization) creates a subscription on the device, and a local   *)
(* subscription id that is absent stays absent. The code does not          *)
(* guarantee it: destroy() clears the timer and starts the unsubscribe,    *)
(* and the subscribe requests in flight go on and store their ids.         *)
(***************************************************************************)
C35_NoSubscriptionAfterDestroy ==
    /\ [][destroyed => devSubs' \subseteq devSubs]_vars
    /\ [][(destroyed /\ subscriptionId = Null) => subscriptionId' = Null]_vars


(***************************************************************************)
(* C36: no subscription is leaked on the device: as long as the accessory  *)
(* is not destroyed, every subscription the device holds is the one whose  *)
(* id the client holds as its current one, whatever the interleaving of    *)
(* overlapping poll ticks; and no two resubscribe requests are in flight   *)
(* at once for one expiry. The code guarantees neither: two overlapping    *)
(* pulls that both meet the expiry both resubscribe, and the id of the     *)
(* first answer is overwritten by the second and stays on the device.      *)
(***************************************************************************)
C36_NoSubscriptionLeaked ==
    ~destroyed =>
        /\ devSubs \subseteq {subscriptionId}
        /\ BagCardinality([t \in {u \in BagToSet(ticks) : u.pc \in {"resub", "resub12"}}
                              |-> CopiesIn(t, ticks)]) <= expiries


(***************************************************************************)
(* C37: once the getSystemInfo of initialize has succeeded, the event      *)
(* polling timer is running in the end, given a device that accepts        *)
(* subscribe requests in the end (it fails MaxFail requests at most): a    *)
(* failed first subscribe is tried again. The code does not do that:       *)
(* startEventPolling logs the failure and returns, and nothing calls it    *)
(* again.                                                                  *)
(***************************************************************************)
C37_PollingEventuallyStarts ==
    (lastStart # "none") ~> (timers # {})


(***************************************************************************)
(* C38: every event type handleEvent has a case for is a type the client   *)
(* subscribes to, so that an event of the device of such a type reaches    *)
(* handleEvent and sets off what its case does (the doorbell for a call    *)
(* that rings or goes out and for an input that goes active). The code     *)
(* does not subscribe to InputChanged and CallStateChanged: their events   *)
(* never come with a pull and their cases never run.                       *)
(***************************************************************************)
C38_ActedOnEventsAreSubscribed ==
    (eventLast.event # NoEvent /\ eventLast.event.event \in Cases) =>
        /\ eventLast.event.event \in include
        /\ eventLast.action = handleEvent(context, eventLast.event)


(***************************************************************************)
(* C39: when an attempt of a request() is answered 401 without a           *)
(* WWW-Authenticate header, or with one that is not a valid Digest         *)
(* challenge (another scheme, no realm, no nonce), the call throws an      *)
(* authentication error in that step: it sends no further attempt and      *)
(* computes no header, and the cached challenge and the nonce counter are  *)
(* as they were.                                                           *)
(***************************************************************************)
C39_InvalidChallengeFailsAtOnce ==
    [][LET s == lastStep'
       IN  (s.kind = "request" /\ s.op \in {"retry", "return", "throw"} /\ s.status = 401
               /\ (\/ s.hdr = NoHeader
                   \/ s.hdr.scheme # "digest"
                   \/ ~s.hdr.realm
                   \/ s.hdr.nonce = Null)) =>
                /\ s.op = "throw"
                /\ s.result \in {"AuthFailed", "Unsupported"}
                /\ s.auth = NoAuth
                /\ BagCardinality(calls') = BagCardinality(calls) - 1
                /\ \A c \in BagToSet(calls') : CopiesIn(c, calls') <= CopiesIn(c, calls)
                /\ lastDigestChallenge' = lastDigestChallenge
                /\ nonceCount' = nonceCount
                /\ issued' = issued
      ]_vars

\* the first attempt of a request() has been answered 401 with a Digest
\* header that has no realm; the call has thrown after that one attempt and
\* the challenge cached before is still the cached one
C39_Witness ==
    /\ lastStep.kind = "request"
    /\ lastStep.op = "throw"
    /\ lastStep.attempts = 1
    /\ lastStep.status = 401
    /\ lastStep.hdr = [scheme |-> "digest", realm |-> FALSE, nonce |-> 1]
    /\ lastStep.result = "Unsupported"
    /\ lastDigestChallenge = [realm |-> TRUE, nonce |-> 2]


(***************************************************************************)
(* C40: against a device that never answers 401 the Digest-capable client  *)
(* and the Basic-only client do the same: for every operation they send    *)
(* the same Basic header and return the same value or throw the same       *)
(* error, and the Digest-capable client caches no challenge and leaves its *)
(* nonce counter at 0. The code does not do the second: the Basic-only     *)
(* request() turns every chunk of the body into a string on its own, and   *)
(* the two getSnapshot() throw different errors on a timeout.              *)
(***************************************************************************)
C40_ClientsAgreeWithout401 ==
    /\ lastDigestChallenge = NoChallenge
    /\ nonceCount = 0
    /\ pairLast # NoOperation =>
          /\ pairLast.basicOnly.auth = BasicAuth
          /\ pairLast.digest.auth = pairLast.basicOnly.auth
          /\ pairLast.digest.outcome = pairLast.basicOnly.outcome

=============================================================================
